---- MODULE Spec2Model ----
(***************************************************************************)
(* Model of the notification orchestration-and-dispatch engine:            *)
(*   apps/notifications/services/template_service.py     (renderer)        *)
(*   apps/notifications/services/orchestration_engine.py (process_event)   *)
(*   apps/notifications/services/dispatch_service.py     (queue, fallback) *)
(*   apps/notifications/tasks.py                         (send task, sweep)*)
(*                                                                         *)
(* Text is modelled as TLA+ strings over ASCII.  Three stand-in characters *)
(* carry the Unicode behaviour the code depends on:                        *)
(*   "6" is U+00F3 (o with acute), "9" is U+00D3 (O with acute),           *)
(*   "'" is U+0301 (combining acute accent, category Mn).                  *)
(***************************************************************************)
EXTENDS Naturals, Sequences, FiniteSets, Bags, TLC

VARIABLES
    customers,   \* customer_contact_info rows: customer_id -> row, or NoRow
    prefs,       \* customer_channel_preferences rows of the customer, by priority
    configs,     \* orchestration_configs rows
    phaseRows,   \* phase_channel_configs rows
    logs,        \* notification_logs rows, in creation order (index = id)
    tasks,       \* send_notification_task messages held by the broker
    result,      \* OrchestrationResult of the last process_event call
    taskResult,  \* what the last execution of send_notification_task returned
    sendCalls,   \* log id -> number of adapter.send calls made for it
    events,      \* number of process_event calls made
    inbox,       \* event payloads submitted by callers and not processed yet
    faults,      \* number of storage/broker faults injected so far
    rendering,   \* a TemplateService.render call: its arguments and its output
    running      \* worker -> the execution of send_notification_task it is in

vars == <<customers, prefs, configs, phaseRows, logs, tasks, result,
          taskResult, sendCalls, events, inbox, faults, rendering, running>>

----------------------------------------------------------------------------
(* Python values *)

None == "<None>"

Truthy(v) == v # None /\ v # ""

\* an optional timestamp: Null, or the instant of the write plus a number of
\* seconds, timezone.now() + timedelta(seconds=t)
Null == <<>>
NowPlus(t) == <<t>>

Min(a, b) == IF a <= b THEN a ELSE b

Max(a, b) == IF a >= b THEN a ELSE b

Range(f) == {f[i] : i \in DOMAIN f}

\* the element of a one-element set; Only({e : x \in {v}}) is e with the
\* local variable x set to v
Only(S) == CHOOSE r \in S : TRUE

----------------------------------------------------------------------------
(* Text: unicodedata and str.lower over the model's alphabet *)

UpperLetters == "ABCDEFGHIJKLMNOPQRSTUVWXYZ"
LowerLetters == "abcdefghijklmnopqrstuvwxyz"

Ch(s, i) == SubSeq(s, i, i)

Rest(s, i) == SubSeq(s, i, Len(s))

\* unicodedata.normalize('NFD', c) of one character
NFDChar(c) ==
    CASE c = "6" -> "o'"
      [] c = "9" -> "O'"
      [] OTHER   -> c

\* unicodedata.category(c) == 'Mn'
IsMn(c) == c = "'"

\* str.lower() of one character
LowerChar(c) ==
    IF \E i \in 1..Len(UpperLetters) : Ch(UpperLetters, i) = c
    THEN LET i == CHOOSE j \in 1..Len(UpperLetters) : Ch(UpperLetters, j) = c
         IN  Ch(LowerLetters, i)
    ELSE IF c = "9" THEN "6" ELSE c

RECURSIVE NFD(_)
NFD(s) == IF s = "" THEN "" ELSE NFDChar(Ch(s, 1)) \o NFD(Rest(s, 2))

RECURSIVE StripMn(_)
StripMn(s) ==
    IF s = "" THEN ""
    ELSE (IF IsMn(Ch(s, 1)) THEN "" ELSE Ch(s, 1)) \o StripMn(Rest(s, 2))

RECURSIVE Lower(_)
Lower(s) == IF s = "" THEN "" ELSE LowerChar(Ch(s, 1)) \o Lower(Rest(s, 2))

\* variant: accents are kept
NormalizeCaseOnly(text) == Lower(text)

\* TemplateService._normalize / OrchestrationEngine._normalize
Normalize(text) == Lower(StripMn(NFD(text)))

----------------------------------------------------------------------------
(* Text: VARIABLE_PATTERN = \{\{([^\{\}\s]+)\}\} *)

IsSpace(c) == c = " "

IsNameChar(c) == c # "{" /\ c # "}" /\ ~IsSpace(c)

\* length of the longest run of [^\{\}\s] characters of s starting at i
RECURSIVE NameRun(_, _)
NameRun(s, i) ==
    IF i <= Len(s) /\ IsNameChar(Ch(s, i)) THEN 1 + NameRun(s, i + 1) ELSE 0

\* length of the name of the placeholder that starts at i, 0 when none does
MatchAt(s, i) ==
    IF i + 1 <= Len(s) /\ SubSeq(s, i, i + 1) = "{{"
    THEN LET k == NameRun(s, i + 2)
         IN  IF k >= 1 /\ i + 3 + k <= Len(s)
                /\ SubSeq(s, i + 2 + k, i + 3 + k) = "}}"
             THEN k ELSE 0
    ELSE 0

\* VARIABLE_PATTERN.findall(s), scanning from position i
RECURSIVE FindAll(_, _)
FindAll(s, i) ==
    IF i > Len(s) THEN <<>>
    ELSE LET k == MatchAt(s, i)
         IN  IF k > 0
             THEN <<SubSeq(s, i + 2, i + 1 + k)>> \o FindAll(s, i + 4 + k)
             ELSE FindAll(s, i + 1)

\* TemplateService.get_variables: list(set(matches)), as a set
GetVariables(template_body) == Range(FindAll(template_body, 1))

----------------------------------------------------------------------------
(* Contexts: a Python dict is a sequence of [k, v] items in insertion order *)

Keys(ctx) == {ctx[i].k : i \in DOMAIN ctx}

HasKey(ctx, key) == key \in Keys(ctx)

Get(ctx, key, default) ==
    IF HasKey(ctx, key)
    THEN ctx[CHOOSE i \in DOMAIN ctx : ctx[i].k = key].v
    ELSE default

\* {normalize(k): v for k, v in ctx.items()}: a later item overwrites an
\* earlier one with the same normalized key
NormalizedKeys(ctx) == {Normalize(ctx[i].k) : i \in DOMAIN ctx}

NormalizedGet(ctx, nkey) ==
    LET last == CHOOSE i \in DOMAIN ctx :
                    /\ Normalize(ctx[i].k) = nkey
                    /\ \A j \in DOMAIN ctx : Normalize(ctx[j].k) = nkey => j <= i
    IN  ctx[last].v

\* TemplateService.render: VARIABLE_PATTERN.sub(replace_variable, s)
RECURSIVE RenderFrom(_, _, _)
RenderFrom(s, i, ctx) ==
    IF i > Len(s) THEN ""
    ELSE LET k == MatchAt(s, i)
         IN  IF k > 0
             THEN LET name == Normalize(SubSeq(s, i + 2, i + 1 + k))
                      repl == IF name \in NormalizedKeys(ctx)
                              THEN LET value == NormalizedGet(ctx, name)
                                   IN  IF value # None THEN value ELSE ""
                              ELSE SubSeq(s, i, i + 3 + k)
                  IN  repl \o RenderFrom(s, i + 4 + k, ctx)
             ELSE Ch(s, i) \o RenderFrom(s, i + 1, ctx)

Render(template_body, context) == RenderFrom(template_body, 1, context)

----------------------------------------------------------------------------
(* Bounds of the model *)

MaxFaults == 1     \* injected storage/broker faults and redeliveries
MaxPrefs == 2      \* channel preference rows of the customer

----------------------------------------------------------------------------
(* Constants of the program *)

EMAIL == "email"
PUSH == "push"
WHATSAPP == "whatsapp"
Channels == {EMAIL, PUSH, WHATSAPP}

PENDING == "pending"
QUEUED == "queued"
SENT == "sent"
DELIVERED == "delivered"
FAILED == "failed"

CUSTOM == "custom"
VEHICLE_READY == "vehicle_ready"

DefaultMaxRetries == 3
TaskMaxRetries == 3
RetryBaseSeconds == 60
FallbackDelaySeconds == 600
PreviewLength == 500

\* variant: custom events also go to push
CustomChannelsWithPush == <<"email", "whatsapp", "push">>

\* custom_channels = [NotificationChannel.EMAIL, NotificationChannel.WHATSAPP]
CustomChannels == <<EMAIL, WHATSAPP>>

\* PhaseChannelConfig.Meta.ordering = ["phase__order", "channel"]
ChannelOrder == <<EMAIL, PUSH, WHATSAPP>>

----------------------------------------------------------------------------
(* Rows *)

NoRow == [present |-> FALSE]

CustomerRow(first, last, email, phone, whatsapp) ==
    [present |-> TRUE, first_name |-> first, last_name |-> last,
     email |-> email, phone |-> phone, whatsapp |-> whatsapp]

\* CustomerContactInfo.full_name
FullName(c) == c.first_name \o " " \o c.last_name

\* a or b
Or(a, b) == IF Truthy(a) THEN a ELSE b

\* CustomerContactInfo.get_recipient_for_channel
GetRecipientForChannel(c, cid, channel) ==
    CASE channel = EMAIL    -> c.email
      [] channel = WHATSAPP -> Or(c.whatsapp, c.phone)
      [] channel = PUSH     -> cid
      [] OTHER              -> None

----------------------------------------------------------------------------
(* Reference data seeded outside the engine *)

CustomerIds == {"C1"}

ServiceTypeSlugs == {"mantenimiento"}

PhaseSlugs == {"entrega"}

\* notification_templates rows: id -> [name, subject, body]
Templates ==
    [t \in {"T-mail", "T-wa", "T-push"} |->
        CASE t = "T-mail" -> [name |-> "mail", subject |-> "Orden {{Orden}}",
                              body |-> "Su {{Placa}} esta listo"]
          [] t = "T-wa"   -> [name |-> "wa", subject |-> None,
                              body |-> "{{N6mbre}}: {{placa}} {listo} {{ x }}"]
          [] t = "T-push" -> [name |-> "push", subject |-> "Aviso",
                              body |-> "Orden {{orden}} lista"]]

----------------------------------------------------------------------------
(* OrchestrationEngine: lookups *)

\* OrchestrationEngine._find_orchestration_config; NoRow when none matches
FindOrchestrationConfig(payload) ==
    IF payload.service_type_id \notin ServiceTypeSlugs THEN NoRow
    ELSE LET match == {c \in configs : /\ c.service_type = payload.service_type_id
                                        /\ c.target = payload.target
                                        /\ c.is_active}
             own == {c \in match : c.taller_id = payload.taller_id}
             global == {c \in match : c.taller_id = None}
         IN  IF Truthy(payload.taller_id) /\ own # {}
             THEN CHOOSE c \in own : TRUE
             ELSE IF global # {} THEN CHOOSE c \in global : TRUE ELSE NoRow

\* rows as a list in the table's default order (by channel)
ByChannel(rows) ==
    LET chans == SelectSeq(ChannelOrder, LAMBDA c : \E r \in rows : r.channel = c)
    IN  [i \in DOMAIN chans |-> CHOOSE r \in rows : r.channel = chans[i]]

\* OrchestrationEngine._get_phase_configs
GetPhaseConfigs(config, phase_id) ==
    IF phase_id \notin PhaseSlugs THEN <<>>
    ELSE ByChannel({r \in phaseRows : r.config = config.id /\ r.phase = phase_id})

\* process_event step 2: [pc for pc in phase_configs if pc.enabled and pc.template]
EnabledChannels(phase_configs) ==
    SelectSeq(phase_configs, LAMBDA pc : pc.enabled /\ pc.template # None)

\* variant: the rows by priority, switched off or not
GetCustomerPreferencesAnyRow(customer_id) == prefs

\* OrchestrationEngine._get_customer_preferences: enabled rows by priority
GetCustomerPreferences(customer_id) ==
    SelectSeq(prefs, LAMBDA pr : pr.enabled)

\* the channels of the customer's rows with enabled=False
DisabledChannels(customer_id) ==
    {prefs[i].channel : i \in {j \in DOMAIN prefs : ~prefs[j].enabled}}

----------------------------------------------------------------------------
(* OrchestrationEngine: customer auto-creation *)

\* str.strip() on the left
RECURSIVE LStrip(_)
LStrip(s) == IF s # "" /\ IsSpace(Ch(s, 1)) THEN LStrip(Rest(s, 2)) ELSE s

\* length of the first whitespace-free run of s
RECURSIVE WordLen(_, _)
WordLen(s, i) ==
    IF i <= Len(s) /\ ~IsSpace(Ch(s, i)) THEN 1 + WordLen(s, i + 1) ELSE 0

RECURSIVE RStrip(_)
RStrip(s) ==
    IF s # "" /\ IsSpace(Ch(s, Len(s))) THEN RStrip(SubSeq(s, 1, Len(s) - 1)) ELSE s

\* nombre.strip().split(maxsplit=1)
SplitName(nombre) ==
    LET t == RStrip(LStrip(nombre))
        n == WordLen(t, 1)
        tail == LStrip(Rest(t, n + 1))
    IN  IF t = "" THEN <<>>
        ELSE IF tail = "" THEN <<SubSeq(t, 1, n)>>
        ELSE <<SubSeq(t, 1, n), tail>>

\* OrchestrationEngine._auto_create_customer_from_context:
\* [raised, row]; row is NoRow when the context carries no usable name
AutoCreateCustomerFromContext(customer_id, context) ==
    LET has(key) == key \in NormalizedKeys(context)
        get(key) == IF has(key) THEN NormalizedGet(context, key) ELSE None
        nombre == get("nombre")
        email == get("email")
        phone == IF has("phone") \/ has("telefono")
                 THEN Or(get("phone"), get("telefono")) ELSE None
        whatsapp == get("whatsapp")
        parts == SplitName(nombre)
    IN  IF ~Truthy(nombre) THEN [raised |-> FALSE, row |-> NoRow]
        ELSE IF parts = <<>> THEN [raised |-> TRUE, row |-> NoRow]
        ELSE [raised |-> FALSE,
              row |-> CustomerRow(parts[1], IF Len(parts) > 1 THEN parts[2] ELSE "",
                                  email, phone, whatsapp)]

\* OrchestrationEngine._get_customer: [raised, row, created]
GetCustomer(customer_id, context) ==
    LET found == customers[customer_id]
    IN  IF ~found.present /\ context # <<>>
        THEN LET made == AutoCreateCustomerFromContext(customer_id, context)
             IN  [raised |-> made.raised, row |-> made.row,
                  created |-> made.row.present]
        ELSE [raised |-> FALSE, row |-> found, created |-> FALSE]

----------------------------------------------------------------------------
(* OrchestrationEngine: enrichment, validation, resolution *)

\* OrchestrationEngine._enrich_context_minimal
EnrichContextMinimal(payload, customer) ==
    LET enriched == IF "nombre" \notin NormalizedKeys(payload.context)
                    THEN <<[k |-> "Nombre", v |-> FullName(customer)]>>
                    ELSE <<>>
    IN  enriched \o payload.context

\* variant: the subjects are not inspected
RequiredVariablesOfBodies(enabled_channels) ==
    UNION {GetVariables(Templates[enabled_channels[i].template].body)
           : i \in DOMAIN enabled_channels}

\* variant: only the subjects are inspected
RequiredVariablesOfSubjects(enabled_channels) ==
    UNION {LET template == Templates[enabled_channels[i].template]
           IN  IF Truthy(template.subject)
               THEN GetVariables(template.subject) ELSE {}
           : i \in DOMAIN enabled_channels}

\* the variables of every candidate template's body and subject
RequiredVariables(enabled_channels) ==
    UNION {LET template == Templates[enabled_channels[i].template]
           IN  GetVariables(template.body)
                 \cup (IF Truthy(template.subject)
                       THEN GetVariables(template.subject) ELSE {})
           : i \in DOMAIN enabled_channels}

\* OrchestrationEngine._validate_template_variables
ValidateTemplateVariables(enabled_channels, enriched_context) ==
    LET normalized_required ==
            {Normalize(var) : var \in RequiredVariables(enabled_channels)}
        missing_variables == normalized_required \ NormalizedKeys(enriched_context)
    IN  [valid |-> missing_variables = {}, missing_variables |-> missing_variables]

\* variant: the resolver forgets the channels it has used
UsedChannelsForgotten(result_list) == {}

\* used_channels after the entries of result
UsedChannels(result_list) ==
    {result_list[j].config.channel : j \in DOMAIN result_list}

\* first loop of _resolve_channels: preferences in priority order
RECURSIVE ResolvePreferred(_, _, _, _, _)
ResolvePreferred(enabled_configs, preferences, customer, cid, i) ==
    IF i = 0 THEN <<>>
    ELSE LET before == ResolvePreferred(enabled_configs, preferences, customer, cid, i - 1)
             pref == preferences[i]
             used == UsedChannels(before)
             recipient == GetRecipientForChannel(customer, cid, pref.channel)
         IN  IF /\ \E j \in DOMAIN enabled_configs :
                        enabled_configs[j].channel = pref.channel
                /\ pref.channel \notin used
                /\ Truthy(recipient)
             THEN Append(before,
                         [config |-> enabled_configs[
                              CHOOSE j \in DOMAIN enabled_configs :
                                  enabled_configs[j].channel = pref.channel],
                          recipient |-> recipient])
             ELSE before

\* second loop of _resolve_channels: the enabled channels not used yet
RECURSIVE ResolveRemaining(_, _, _, _, _, _)
ResolveRemaining(enabled_configs, first, disabled, customer, cid, i) ==
    IF i = 0 THEN first
    ELSE LET before == ResolveRemaining(enabled_configs, first, disabled, customer, cid, i - 1)
             config == enabled_configs[i]
             used == UsedChannels(before)
             recipient == GetRecipientForChannel(customer, cid, config.channel)
         IN  IF /\ config.channel \notin used
                /\ config.channel \notin disabled
                /\ Truthy(recipient)
             THEN Append(before, [config |-> config, recipient |-> recipient])
             ELSE before

\* OrchestrationEngine._resolve_channels
ResolveChannels(enabled_configs, preferences, customer, cid) ==
    ResolveRemaining(enabled_configs,
                     ResolvePreferred(enabled_configs, preferences, customer, cid,
                                      Len(preferences)),
                     DisabledChannels(cid), customer, cid, Len(enabled_configs))

----------------------------------------------------------------------------
(* DispatchService.queue_notification *)

LogId(n) == "log-" \o ToString(n)

\* what a UUIDField gives back for the text stored in it: str(uuid.UUID(v))
UuidStr(v) == IF v = None THEN None ELSE Lower(v)

Exists(L, id) == \E i \in DOMAIN L : L[i].id = id

\* body[:500] if body else None
BodyPreview(body) ==
    IF Truthy(body) THEN SubSeq(body, 1, Min(Len(body), PreviewLength)) ELSE None

\* the row NotificationLog.objects.create(...) inserts
NewLog(id, f) ==
    [id |-> id,
     event_type |-> f.event_type,
     channel |-> f.channel,
     recipient_id |-> f.customer_id,
     recipient_address |-> f.recipient,
     template_id |-> f.template_id,
     template_name |-> f.template_name,
     subject |-> f.subject,
     body_preview |-> BodyPreview(f.body),
     status |-> QUEUED,
     sent_at |-> Null,
     error_reason |-> None,
     error_code |-> None,
     retry_count |-> 0,
     max_retries |-> DefaultMaxRetries,
     next_retry_at |-> Null,
     context_data |-> [context |-> f.context,
                       priority_order |-> f.priority_order,
                       full_body |-> f.body],
     correlation_id |-> UuidStr(f.correlation_id),
     parent_log_id |-> f.parent_log_id]

\* a message of send_notification_task: request.retries and the countdown
\* it was enqueued with
SendTaskMessage(log_id, retries, countdown) ==
    [log_id |-> log_id, retries |-> retries, countdown |-> countdown]

\* DispatchService.queue_notification on the table L and the broker queue T.
\* outcome: "ok", "db_error" (the insert fails) or "broker_error" (apply_async
\* fails after the insert).  The insert also fails when parent_log_id names no
\* row of the table (the foreign key of parent_log).
QueueNotification(L, T, f, outcome, countdown) ==
    LET id == LogId(Len(L) + 1)
        fk_ok == f.parent_log_id = None \/ Exists(L, f.parent_log_id)
    IN  IF outcome = "db_error" \/ ~fk_ok
        THEN [logs |-> L, tasks |-> T, raised |-> TRUE, id |-> None]
        ELSE IF outcome = "broker_error"
        THEN [logs |-> Append(L, NewLog(id, f)), tasks |-> T,
              raised |-> TRUE, id |-> id]
        ELSE [logs |-> Append(L, NewLog(id, f)),
              tasks |-> T (+) SetToBag({SendTaskMessage(id, 0, countdown)}),
              raised |-> FALSE, id |-> id]

----------------------------------------------------------------------------
(* OrchestrationEngine.process_event *)

Err(code, detail) == [code |-> code, detail |-> detail]

OrchestrationResult(success, queued, errors, correlation_id) ==
    [success |-> success, notifications_queued |-> queued,
     errors |-> errors, correlation_id |-> correlation_id]

Outcome(C, L, T, r) == [customers |-> C, logs |-> L, tasks |-> T, result |-> r]

\* an early return of process_event with success=False and one error
Fail(C, L, T, correlation_id, code, detail) ==
    Outcome(C, L, T, OrchestrationResult(FALSE, 0, <<Err(code, detail)>>,
                                         correlation_id))

\* variant: having nothing to send is reported as a failure
EmptyAsFailure(C, correlation_id, code) ==
    Fail(C, logs, tasks, correlation_id, code, {})

\* an early return of process_event with success=True and one error
Empty(C, correlation_id, code) ==
    Outcome(C, logs, tasks,
            OrchestrationResult(TRUE, 0, <<Err(code, {})>>, correlation_id))

\* the return at the end of the queue loop
Queued(C, done, correlation_id) ==
    Outcome(C, done.logs, done.tasks,
            OrchestrationResult(done.errors = <<>>, done.queued, done.errors,
                                correlation_id))

\* variant: a failed queue_notification call is counted as queued
AccumulateCountingAll(acc, q, channel) ==
    [logs |-> q.logs, tasks |-> q.tasks,
     queued |-> acc.queued + 1,
     errors |-> IF q.raised
                THEN Append(acc.errors, Err("queue_failed", channel))
                ELSE acc.errors]

\* what one pass of a queue loop adds to the accumulated acc, given the
\* return q of queue_notification
Accumulate(acc, q, channel) ==
    [logs |-> q.logs, tasks |-> q.tasks,
     queued |-> IF q.raised THEN acc.queued ELSE acc.queued + 1,
     errors |-> IF q.raised
                THEN Append(acc.errors, Err("queue_failed", channel))
                ELSE acc.errors]

\* process_event step 6, one pass of the loop over channels_to_notify
QueueEntry(payload, correlation_id, enriched_context, entry, priority_order, outcomes, acc) ==
    LET template == Templates[entry.config.template]
    IN  Only({Accumulate(acc, q, entry.config.channel) :
              q \in {QueueNotification(acc.logs, acc.tasks,
                       [channel |-> entry.config.channel,
                        recipient |-> entry.recipient,
                        subject |-> IF Truthy(template.subject)
                                    THEN Render(template.subject, enriched_context)
                                    ELSE None,
                        body |-> Render(template.body, enriched_context),
                        event_type |-> payload.event_type,
                        customer_id |-> payload.customer_id,
                        template_id |-> entry.config.template,
                        template_name |-> template.name,
                        context |-> enriched_context,
                        correlation_id |-> correlation_id,
                        priority_order |-> priority_order,
                        parent_log_id |-> None],
                       outcomes[entry.config.channel], 0)}})

\* process_event step 6: the loop over channels_to_notify, entries 1..i
RECURSIVE QueueLoop(_, _, _, _, _, _, _)
QueueLoop(payload, correlation_id, enriched_context, entries, priority_order, outcomes, i) ==
    IF i = 0
    THEN [logs |-> logs, tasks |-> tasks, queued |-> 0, errors |-> <<>>]
    ELSE Only({QueueEntry(payload, correlation_id, enriched_context, entries[i],
                          priority_order, outcomes, acc) :
               acc \in {QueueLoop(payload, correlation_id, enriched_context,
                                  entries, priority_order, outcomes, i - 1)}})

\* process_event steps 5 and 6: resolve the channels, queue one notification
\* for each
ResolveAndQueue(payload, correlation_id, outcomes, enabled_channels, customer, stored, enriched_context) ==
    Only({IF channels_to_notify = <<>>
          THEN Empty(stored, correlation_id, "no_valid_channels")
          ELSE Only({Queued(stored, done, correlation_id) :
                     done \in {QueueLoop(payload, correlation_id, enriched_context,
                                         channels_to_notify,
                                         [i \in DOMAIN channels_to_notify |->
                                             channels_to_notify[i].config.channel],
                                         outcomes, Len(channels_to_notify))}}) :
          channels_to_notify \in
              {ResolveChannels(enabled_channels,
                               GetCustomerPreferences(payload.customer_id),
                               customer, payload.customer_id)}})

\* process_event steps 4 and 4.6: enrich the context, validate the templates
EnrichAndValidate(payload, correlation_id, outcomes, enabled_channels, customer, stored) ==
    Only({Only({IF ~validation_result.valid
                THEN Fail(stored, logs, tasks, correlation_id, "missing_variables",
                          validation_result.missing_variables)
                ELSE ResolveAndQueue(payload, correlation_id, outcomes,
                                     enabled_channels, customer, stored,
                                     enriched_context) :
                validation_result \in
                    {ValidateTemplateVariables(enabled_channels, enriched_context)}}) :
          enriched_context \in {EnrichContextMinimal(payload, customer)}})

\* process_event step 3: the customer, created from the context when absent
WithCustomer(payload, correlation_id, outcomes, enabled_channels) ==
    Only({IF got.raised
          THEN Fail(customers, logs, tasks, correlation_id, "exception", {})
          ELSE IF ~got.row.present
          THEN Fail(customers, logs, tasks, correlation_id, "customer_not_found", {})
          ELSE EnrichAndValidate(payload, correlation_id, outcomes, enabled_channels,
                                 got.row,
                                 IF got.created
                                 THEN [customers EXCEPT ![payload.customer_id] = got.row]
                                 ELSE customers) :
          got \in {GetCustomer(payload.customer_id, payload.context)}})

\* process_event step 2: the enabled channel configurations of the phase
WithConfig(payload, correlation_id, outcomes, config) ==
    Only({IF enabled_channels = <<>>
          THEN Empty(customers, correlation_id, "no_channels_enabled")
          ELSE WithCustomer(payload, correlation_id, outcomes, enabled_channels) :
          enabled_channels \in
              {EnabledChannels(GetPhaseConfigs(config, payload.phase_id))}})

\* process_event for every event type but "custom", from step 1 on
ProcessRegularEvent(payload, correlation_id, outcomes) ==
    Only({IF ~config.present
          THEN Fail(customers, logs, tasks, correlation_id, "config_not_found", {})
          ELSE WithConfig(payload, correlation_id, outcomes, config) :
          config \in {FindOrchestrationConfig(payload)}})

\* _process_custom_event, one pass of the loop over custom_channels
CustomEntry(payload, correlation_id, enriched_context, customer, rendered, channel, outcomes, acc) ==
    LET recipient == GetRecipientForChannel(customer, payload.customer_id, channel)
    IN  IF ~Truthy(recipient) THEN acc
        ELSE Only({Accumulate(acc, q, channel) :
                   q \in {QueueNotification(acc.logs, acc.tasks,
                            [channel |-> channel,
                             recipient |-> recipient,
                             subject |-> rendered.subject,
                             body |-> rendered.body,
                             event_type |-> payload.event_type,
                             customer_id |-> payload.customer_id,
                             template_id |-> None,
                             template_name |-> "custom_event",
                             context |-> enriched_context,
                             correlation_id |-> correlation_id,
                             priority_order |-> CustomChannels,
                             parent_log_id |-> None],
                            outcomes[channel], 0)}})

\* OrchestrationEngine._process_custom_event, the loop over custom_channels
RECURSIVE CustomLoop(_, _, _, _, _, _, _)
CustomLoop(payload, correlation_id, enriched_context, customer, rendered, outcomes, i) ==
    IF i = 0
    THEN [logs |-> logs, tasks |-> tasks, queued |-> 0, errors |-> <<>>]
    ELSE Only({CustomEntry(payload, correlation_id, enriched_context, customer,
                           rendered, CustomChannels[i], outcomes, acc) :
               acc \in {CustomLoop(payload, correlation_id, enriched_context,
                                   customer, rendered, outcomes, i - 1)}})

\* _process_custom_event from the rendering on
RenderAndQueue(payload, correlation_id, outcomes, customer, enriched_context) ==
    Only({Only({IF done.queued = 0
                THEN Fail(customers, done.logs, done.tasks, correlation_id,
                          "no_valid_contact", {})
                ELSE Queued(customers, done, correlation_id) :
                done \in {CustomLoop(payload, correlation_id, enriched_context,
                                     customer, rendered, outcomes,
                                     Len(CustomChannels))}}) :
          rendered \in
              {[subject |-> Render(Get(enriched_context, "subject", ""),
                                   enriched_context),
                body |-> Render(Get(enriched_context, "body", ""),
                                enriched_context)]}})

\* OrchestrationEngine._process_custom_event
ProcessCustomEvent(payload, correlation_id, outcomes) ==
    IF ~HasKey(payload.context, "subject") \/ ~HasKey(payload.context, "body")
    THEN Fail(customers, logs, tasks, correlation_id,
              "custom_requires_subject_body", {})
    ELSE Only({IF ~got.row.present
               THEN Fail(customers, logs, tasks, correlation_id,
                         "customer_not_found", {})
               ELSE Only({RenderAndQueue(payload, correlation_id, outcomes, got.row,
                                         enriched_context) :
                          enriched_context \in
                              {EnrichContextMinimal(payload, got.row)}}) :
               got \in {GetCustomer(payload.customer_id, <<>>)}})

\* variant: the caller's id is ignored
CorrelationIdAlwaysNew(payload) == "uuid-" \o ToString(events + 1)

\* correlation_id = payload.correlation_id or str(uuid.uuid4())
CorrelationId(payload) ==
    IF Truthy(payload.correlation_id) THEN payload.correlation_id
    ELSE "uuid-" \o ToString(events + 1)

\* OrchestrationEngine.process_event
ProcessEventOutcome(payload, outcomes) ==
    IF payload.event_type = CUSTOM
    THEN ProcessCustomEvent(payload, CorrelationId(payload), outcomes)
    ELSE ProcessRegularEvent(payload, CorrelationId(payload), outcomes)

QueueOutcomes == {"ok", "db_error", "broker_error"}

FaultCount(outcomes) == Cardinality({c \in Channels : outcomes[c] # "ok"})

\* one call of process_event, for a submitted event
ProcessEvent(payload, outcomes) ==
    /\ payload \in inbox
    /\ faults + FaultCount(outcomes) <= MaxFaults
    /\ \E out \in {ProcessEventOutcome(payload, outcomes)} :
           /\ customers' = out.customers
           /\ logs' = out.logs
           /\ tasks' = out.tasks
           /\ result' = out.result
           /\ sendCalls' = [i \in DOMAIN out.logs |->
                               IF i \in DOMAIN sendCalls THEN sendCalls[i] ELSE 0]
    /\ inbox' = inbox \ {payload}
    /\ events' = events + 1
    /\ faults' = faults + FaultCount(outcomes)
    /\ UNCHANGED <<prefs, configs, phaseRows, taskResult, rendering, running>>

----------------------------------------------------------------------------
(* DispatchService.schedule_fallback *)

IndexOf(seq, x) == CHOOSE i \in DOMAIN seq : seq[i] = x /\ \A j \in 1..(i - 1) : seq[j] # x

\* NotificationLog(channel=..., recipient_id=..., context_data=...,
\* correlation_id=...): an unsaved instance with a fresh id and field defaults
MockLog(failed_log, next_channel) ==
    [id |-> "unsaved-" \o next_channel,
     event_type |-> "",
     channel |-> next_channel,
     recipient_id |-> failed_log.recipient_id,
     template_id |-> None,
     template_name |-> None,
     subject |-> None,
     body_preview |-> None,
     context_data |-> failed_log.context_data,
     correlation_id |-> failed_log.correlation_id]

\* the position of the channel schedule_fallback tries after failed_log's
\* channel at position current_index of priority_order
NextIndex(current_index) == current_index + 1

\* DispatchService.schedule_fallback on the table L and the broker queue T:
\* [logs, tasks, raised, id]; id is None when no fallback was created
RECURSIVE ScheduleFallback(_, _, _, _)
ScheduleFallback(L, T, failed_log, outcome) ==
    LET priority_order == failed_log.context_data.priority_order
        none == [logs |-> L, tasks |-> T, raised |-> FALSE, id |-> None]
    IN  IF failed_log.channel \notin Range(priority_order) THEN none
        ELSE LET current_index == IndexOf(priority_order, failed_log.channel)
             IN  IF current_index >= Len(priority_order) THEN none
                 ELSE LET next_channel == priority_order[NextIndex(current_index)]
                          customer == customers[failed_log.recipient_id]
                          recipient == GetRecipientForChannel(
                                           customer, failed_log.recipient_id,
                                           next_channel)
                      IN  IF ~customer.present THEN none
                          ELSE IF ~Truthy(recipient)
                          THEN ScheduleFallback(L, T, MockLog(failed_log, next_channel),
                                                outcome)
                          ELSE QueueNotification(L, T,
                                 [channel |-> next_channel,
                                  recipient |-> recipient,
                                  subject |-> failed_log.subject,
                                  body |-> failed_log.context_data.full_body,
                                  event_type |-> failed_log.event_type,
                                  customer_id |-> failed_log.recipient_id,
                                  template_id |-> failed_log.template_id,
                                  template_name |-> failed_log.template_name,
                                  context |-> failed_log.context_data.context,
                                  correlation_id |-> failed_log.correlation_id,
                                  priority_order |-> priority_order,
                                  parent_log_id |-> failed_log.id],
                                 outcome, FallbackDelaySeconds)

----------------------------------------------------------------------------
(* send_notification_task *)

LogIndex(log_id) == CHOOSE i \in DOMAIN logs : logs[i].id = log_id

\* variant: the exponent counts the failures, not the failures before this one
RetryDelayDoubled(retry_count) == RetryBaseSeconds * (2 ^ retry_count)

\* retry_delay = 60 * (2 ** (log.retry_count - 1))
RetryDelay(retry_count) == RetryBaseSeconds * (2 ^ (retry_count - 1))

\* variant: gives up one failure later
RetriesExhaustedLate(log) == log.retry_count > log.max_retries

\* log.retry_count >= log.max_retries
RetriesExhausted(log) == log.retry_count >= log.max_retries

\* Task.retry of a message delivered with request.retries = retries: the
\* message it enqueues, or none once the task's own max_retries is passed
CeleryRetry(m, countdown) ==
    IF m.retries + 1 > TaskMaxRetries THEN {}
    ELSE {SendTaskMessage(m.log_id, m.retries + 1, countdown)}

\* variant: one code for all channels
NotConfiguredCodeGeneric(channel) == "NOT_CONFIGURED"

\* f"{log.channel.upper()}_NOT_CONFIGURED"
NotConfiguredCode(channel) ==
    CASE channel = EMAIL    -> "EMAIL_NOT_CONFIGURED"
      [] channel = WHATSAPP -> "WHATSAPP_NOT_CONFIGURED"
      [] channel = PUSH     -> "PUSH_NOT_CONFIGURED"

\* the dict the task returns, or "raised" when schedule_fallback ends it in an
\* exception, or "crashed" when adapter.send does
TaskResult(log_id, status) == [log_id |-> log_id, status |-> status]

\* variant: only a delivery receipt stops a second send
AlreadyProcessedDelivered(log) == log.status = DELIVERED

\* log.status in [NotificationStatus.SENT, NotificationStatus.DELIVERED]
AlreadyProcessed(log) == log.status \in {SENT, DELIVERED}

\* what the provider does with a send: it accepts it, refuses it (transport
\* error, timeout, HTTP error, no subscription), or accepts it and answers
\* with a body that is not the expected JSON object
Responses == {"ok", "error", "malformed"}

\* adapter.send(payload) for the provider's response: "sent" and "failed" are
\* NotificationResult(success=True/False), "raised" is an exception leaving
\* send. EmailAdapter and WebPushAdapter catch Exception; WhatsAppAdapter
\* catches requests' exceptions only, and result.get("key", {}).get("id")
\* raises AttributeError on a body that is not an object
AdapterSend(channel, response) ==
    IF response = "ok" THEN "sent"
    ELSE IF response = "malformed" /\ channel = WHATSAPP THEN "raised"
    ELSE "failed"

TaskFaults(configured, outcome, acked) ==
    (IF configured THEN 0 ELSE 1) + (IF outcome = "ok" THEN 0 ELSE 1)
      + (IF acked THEN 0 ELSE 1)

\* one execution of send_notification_task for the delivered message m.
\* configured: adapter.is_configured(); response: the provider's answer to
\* adapter.send; outcome: what the storage and the broker do to a fallback.
\* acked: the broker sees the acknowledgement; when it does not, it delivers
\* the message again after the visibility timeout.
\* A provider failing to deliver is ordinary; a missing adapter setting, a
\* storage or broker error, a lost acknowledgement and an exception leaving
\* the adapter are faults
SendNotificationTask(m, configured, response, outcome, acked) ==
    /\ BagIn(m, tasks)
    /\ faults + TaskFaults(configured, outcome, acked) <= MaxFaults
    /\ LET i == LogIndex(m.log_id)
           log == logs[i]
           sent == AdapterSend(log.channel, response)
           rest == IF acked THEN tasks (-) SetToBag({m}) ELSE tasks
           lost == IF acked THEN 0 ELSE 1
           failed == [log EXCEPT !.retry_count = log.retry_count + 1,
                                 !.error_reason = "send failed",
                                 !.error_code = "SEND_ERROR"]
       IN  IF AlreadyProcessed(log)
           THEN /\ outcome = "ok" /\ configured /\ response = "ok"
                /\ taskResult' = TaskResult(log.id, "skipped")
                /\ tasks' = rest
                /\ faults' = faults + lost
                /\ UNCHANGED <<logs, sendCalls>>
           ELSE IF log.channel \notin Channels
           THEN /\ outcome = "ok" /\ configured /\ response = "ok"
                /\ logs' = [logs EXCEPT ![i].status = FAILED,
                                        ![i].error_reason = "unknown channel",
                                        ![i].error_code = "UNKNOWN_CHANNEL"]
                /\ taskResult' = TaskResult(log.id, "error")
                /\ tasks' = rest
                /\ faults' = faults + lost
                /\ UNCHANGED sendCalls
           ELSE IF ~configured
           THEN /\ outcome = "ok" /\ response = "ok"
                /\ logs' = [logs EXCEPT ![i].status = FAILED,
                                        ![i].error_reason = "not configured",
                                        ![i].error_code = NotConfiguredCode(log.channel)]
                /\ taskResult' = TaskResult(log.id, "error")
                /\ tasks' = rest
                /\ faults' = faults + 1 + lost
                /\ UNCHANGED sendCalls
           ELSE IF sent = "raised"
           THEN /\ outcome = "ok"
                /\ faults + 1 + lost <= MaxFaults
                /\ taskResult' = TaskResult(log.id, "crashed")
                /\ sendCalls' = [sendCalls EXCEPT ![i] = @ + 1]
                /\ tasks' = rest (+) SetToBag(CeleryRetry(m, 0))
                /\ faults' = faults + 1 + lost
                /\ UNCHANGED logs
           ELSE IF sent = "sent"
           THEN /\ outcome = "ok"
                /\ logs' = [logs EXCEPT ![i].status = SENT, ![i].sent_at = NowPlus(0)]
                /\ taskResult' = TaskResult(log.id, "sent")
                /\ sendCalls' = [sendCalls EXCEPT ![i] = @ + 1]
                /\ tasks' = rest
                /\ faults' = faults + lost
           ELSE IF RetriesExhausted(failed)
           THEN LET saved == [logs EXCEPT ![i] = [failed EXCEPT !.status = FAILED]]
                    fb == ScheduleFallback(saved, rest, saved[i], outcome)
                IN  /\ logs' = fb.logs
                    /\ taskResult' = TaskResult(log.id, IF fb.raised THEN "raised"
                                                        ELSE "failed")
                    /\ tasks' = IF fb.raised
                                THEN fb.tasks (+) SetToBag(CeleryRetry(m, 0))
                                ELSE fb.tasks
                    /\ sendCalls' = [j \in DOMAIN fb.logs |->
                                        IF j = i THEN sendCalls[j] + 1
                                        ELSE IF j \in DOMAIN sendCalls
                                        THEN sendCalls[j] ELSE 0]
                    /\ faults' = faults + TaskFaults(configured, outcome, acked)
           ELSE /\ outcome = "ok"
                /\ logs' = [logs EXCEPT ![i] =
                              [failed EXCEPT !.next_retry_at =
                                                 NowPlus(RetryDelay(failed.retry_count))]]
                /\ tasks' = rest (+) SetToBag(CeleryRetry(m, RetryDelay(failed.retry_count)))
                /\ taskResult' = TaskResult(log.id, "retry")
                /\ sendCalls' = [sendCalls EXCEPT ![i] = @ + 1]
                /\ faults' = faults + lost
    /\ UNCHANGED <<customers, prefs, configs, phaseRows, result, events, inbox,
                   rendering, running>>

----------------------------------------------------------------------------
(* send_notification_task in two steps: executions of several workers overlap *)

\* worker processes of the notifications queue
Workers == {"w1", "w2"}

\* a worker between executions
Idle == [busy |-> FALSE]

\* the worker w takes the message m and loads the record:
\* log = NotificationLog.objects.get(id=log_id)
SendLoad(w, m) ==
    /\ ~running[w].busy
    /\ BagIn(m, tasks)
    /\ tasks' = tasks (-) SetToBag({m})
    /\ running' = [running EXCEPT ![w] = [busy |-> TRUE, m |-> m,
                                          log |-> logs[LogIndex(m.log_id)]]]
    /\ UNCHANGED <<customers, prefs, configs, phaseRows, logs, result, taskResult,
                   sendCalls, events, inbox, faults, rendering>>

\* the worker w runs the rest of the task on the instance it loaded.
\* mark_sent and mark_failed write the columns of their update_fields;
\* log.save() writes every column of the loaded instance
SendFinish(w, configured, response) ==
    /\ running[w].busy
    /\ LET m == running[w].m
           log == running[w].log
           i == LogIndex(log.id)
           sent == AdapterSend(log.channel, response)
           failed == [log EXCEPT !.retry_count = log.retry_count + 1,
                                 !.error_reason = "send failed",
                                 !.error_code = "SEND_ERROR"]
       IN  IF AlreadyProcessed(log)
           THEN /\ configured /\ response = "ok"
                /\ taskResult' = TaskResult(log.id, "skipped")
                /\ UNCHANGED <<logs, tasks, sendCalls, faults>>
           ELSE IF log.channel \notin Channels
           THEN /\ configured /\ response = "ok"
                /\ logs' = [logs EXCEPT ![i].status = FAILED,
                                        ![i].error_reason = "unknown channel",
                                        ![i].error_code = "UNKNOWN_CHANNEL"]
                /\ taskResult' = TaskResult(log.id, "error")
                /\ UNCHANGED <<tasks, sendCalls, faults>>
           ELSE IF ~configured
           THEN /\ response = "ok"
                /\ faults < MaxFaults
                /\ logs' = [logs EXCEPT ![i].status = FAILED,
                                        ![i].error_reason = "not configured",
                                        ![i].error_code = NotConfiguredCode(log.channel)]
                /\ taskResult' = TaskResult(log.id, "error")
                /\ faults' = faults + 1
                /\ UNCHANGED <<tasks, sendCalls>>
           ELSE IF sent = "raised"
           THEN /\ faults < MaxFaults
                /\ taskResult' = TaskResult(log.id, "crashed")
                /\ sendCalls' = [sendCalls EXCEPT ![i] = @ + 1]
                /\ tasks' = tasks (+) SetToBag(CeleryRetry(m, 0))
                /\ faults' = faults + 1
                /\ UNCHANGED logs
           ELSE IF sent = "sent"
           THEN /\ logs' = [logs EXCEPT ![i].status = SENT, ![i].sent_at = NowPlus(0)]
                /\ taskResult' = TaskResult(log.id, "sent")
                /\ sendCalls' = [sendCalls EXCEPT ![i] = @ + 1]
                /\ UNCHANGED <<tasks, faults>>
           ELSE IF RetriesExhausted(failed)
           THEN LET saved == [logs EXCEPT ![i] = [failed EXCEPT !.status = FAILED]]
                    fb == ScheduleFallback(saved, tasks, saved[i], "ok")
                IN  /\ logs' = fb.logs
                    /\ taskResult' = TaskResult(log.id, IF fb.raised THEN "raised"
                                                        ELSE "failed")
                    /\ tasks' = IF fb.raised
                                THEN fb.tasks (+) SetToBag(CeleryRetry(m, 0))
                                ELSE fb.tasks
                    /\ sendCalls' = [j \in DOMAIN fb.logs |->
                                        IF j = i THEN sendCalls[j] + 1
                                        ELSE IF j \in DOMAIN sendCalls
                                        THEN sendCalls[j] ELSE 0]
                    /\ UNCHANGED faults
           ELSE /\ logs' = [logs EXCEPT ![i] =
                              [failed EXCEPT !.next_retry_at =
                                                 NowPlus(RetryDelay(failed.retry_count))]]
                /\ tasks' = tasks (+) SetToBag(CeleryRetry(m, RetryDelay(failed.retry_count)))
                /\ taskResult' = TaskResult(log.id, "retry")
                /\ sendCalls' = [sendCalls EXCEPT ![i] = @ + 1]
                /\ UNCHANGED faults
    /\ running' = [running EXCEPT ![w] = Idle]
    /\ UNCHANGED <<customers, prefs, configs, phaseRows, result, events, inbox,
                   rendering>>

----------------------------------------------------------------------------
(* retry_failed_notifications, the periodic sweep *)

\* status=FAILED, next_retry_at__lte=now, retry_count__lt=F("max_retries");
\* due is the set of rows whose next_retry_at has passed when the sweep runs
PendingRetries(due) ==
    {i \in due : /\ logs[i].status = FAILED
                 /\ logs[i].next_retry_at # Null
                 /\ logs[i].retry_count < logs[i].max_retries}

\* one run of the sweep that finds something due (a run that finds nothing
\* returns {"requeued": 0} and changes nothing)
RetryFailedNotifications(due) ==
    /\ PendingRetries(due) # {}
    /\ logs' = [i \in DOMAIN logs |->
                   IF i \in PendingRetries(due)
                   THEN [logs[i] EXCEPT !.status = QUEUED] ELSE logs[i]]
    /\ tasks' = tasks (+) SetToBag({SendTaskMessage(logs[i].id, 0, 0) :
                                        i \in PendingRetries(due)})
    /\ UNCHANGED <<customers, prefs, configs, phaseRows, result, taskResult,
                   sendCalls, events, inbox, faults, rendering, running>>

----------------------------------------------------------------------------
(* The environment: the broker, the customer CRUD API *)

\* contact rows the CRUD API and the sync task write
ContactFull == CustomerRow("Ana", "Li", "ana@x.ec", None, "0991")
ContactEmailOnly == CustomerRow("Ana", "Li", "ana@x.ec", None, None)
ContactPhoneOnly == CustomerRow("Ana", "Li", None, "0992", "")
ContactBlankEmail == CustomerRow("Ana", "Li", "", None, None)

CustomerFixtures ==
    {ContactFull, ContactEmailOnly, ContactPhoneOnly, ContactBlankEmail}

\* the rows the CRUD API writes in the end-to-end specification
UpdateRows == {ContactFull, ContactEmailOnly}

\* CustomerContactInfoViewSet update: the contact fields of an existing
\* customer are replaced
UpdateCustomer(cid, row) ==
    /\ customers[cid].present
    /\ row # customers[cid]
    /\ logs # <<>>
    /\ customers' = [customers EXCEPT ![cid] = row]
    /\ UNCHANGED <<prefs, configs, phaseRows, logs, tasks, result, taskResult,
                   sendCalls, events, inbox, faults, rendering, running>>

\* NotificationLog.mark_delivered, called when a delivery receipt arrives for
\* a sent notification
MarkDelivered(i) ==
    /\ i \in DOMAIN logs
    /\ logs[i].status = SENT
    /\ logs' = [logs EXCEPT ![i].status = DELIVERED]
    /\ UNCHANGED <<customers, prefs, configs, phaseRows, tasks, result,
                   taskResult, sendCalls, events, inbox, faults, rendering, running>>

----------------------------------------------------------------------------
(* Event payloads *)

Item(k, v) == [k |-> k, v |-> v]

EventPayload(event_type, service_type_id, phase_id, context, taller_id, correlation_id) ==
    [event_type |-> event_type, service_type_id |-> service_type_id,
     phase_id |-> phase_id, customer_id |-> "C1", target |-> "clients",
     context |-> context, taller_id |-> taller_id,
     correlation_id |-> correlation_id]

CtxFull == <<Item("nombre", "Ana"), Item("placa", "PBA123"), Item("orden", "OT-1")>>

RegularContexts ==
    {CtxFull,
     <<Item("N6MBRE", "Ana"), Item("Placa", "PBA123"), Item("ORDEN", "OT-1")>>,
     <<Item("nombre", "Ana"), Item("orden", "OT-1")>>,
     <<Item("placa", "PBA123"), Item("orden", None)>>,
     <<Item("nombre", "Ana Li"), Item("Email", "ana@x.ec"), Item("telefono", "0992")>>,
     <<Item("nombre", " "), Item("placa", "PBA123"), Item("orden", "OT-1")>>,
     <<Item("Nombre", "Ana"), Item("PLACA", "PBA123")>>,
     <<>>}

CtxCustom == <<Item("subject", "Hola {{Nombre}}"), Item("body", "Su {{Placa}} {{x}}"),
               Item("placa", "PBA123")>>

CustomContexts ==
    {CtxCustom,
     <<Item("subject", "Hola"), Item("body", "{{N6mbre}}"), Item("nombre", "Ana")>>,
     <<Item("subject", "Hola")>>,
     <<Item("Subject", "Hola"), Item("body", "Texto")>>}

\* the payloads callers submit in the orchestration specification
OrchPayloads ==
    {EventPayload(VEHICLE_READY, "mantenimiento", "entrega", c, None, None) :
         c \in RegularContexts}
      \cup {EventPayload(CUSTOM, "mantenimiento", "entrega", c, None, None) :
                c \in CustomContexts}

\* payloads that exercise the configuration lookup
LookupPayloads ==
    {EventPayload(VEHICLE_READY, "desconocido", "entrega", CtxFull, None, None),
     EventPayload(VEHICLE_READY, "mantenimiento", "otra", CtxFull, None, None),
     EventPayload(VEHICLE_READY, "mantenimiento", "entrega", CtxFull, "T1", None),
     EventPayload(VEHICLE_READY, "mantenimiento", "entrega", CtxFull, None, "corr-1"),
     EventPayload(CUSTOM, "", "", CtxCustom, None, "corr-1")}

\* the payloads callers submit in the end-to-end specification
DispatchPayloads ==
    {EventPayload(VEHICLE_READY, "mantenimiento", "entrega", CtxFull, None, None),
     EventPayload(CUSTOM, "", "", CtxCustom, None, "corr-1"),
     EventPayload(CUSTOM, "", "", <<Item("subject", "Hola")>>, None, None)}

----------------------------------------------------------------------------
(* Stored reference data *)

ConfigRow(id, taller_id, is_active) ==
    [present |-> TRUE, id |-> id, service_type |-> "mantenimiento",
     target |-> "clients", taller_id |-> taller_id, is_active |-> is_active]

GlobalConfig == ConfigRow("cfg-global", None, TRUE)

ConfigTables ==
    {{GlobalConfig},
     {},
     {ConfigRow("cfg-global", None, FALSE)},
     {ConfigRow("cfg-global", None, FALSE), ConfigRow("cfg-T1", "T1", TRUE)},
     {GlobalConfig, ConfigRow("cfg-T1", "T1", TRUE)}}

PhaseRow(config, channel, enabled, template) ==
    [config |-> config, phase |-> "entrega", channel |-> channel,
     enabled |-> enabled, template |-> template]

TemplateOf(channel) ==
    CASE channel = EMAIL    -> "T-mail"
      [] channel = WHATSAPP -> "T-wa"
      [] channel = PUSH     -> "T-push"

\* what the table may hold for one (config, phase, channel): no row, or a row
RowChoices(config, channel) ==
    {{}, {PhaseRow(config, channel, TRUE, TemplateOf(channel))},
         {PhaseRow(config, channel, FALSE, TemplateOf(channel))},
         {PhaseRow(config, channel, TRUE, None)}}

PhaseTables ==
    {e \cup w \cup p : e \in RowChoices("cfg-global", EMAIL),
                       w \in RowChoices("cfg-global", WHATSAPP),
                       p \in RowChoices("cfg-global", PUSH)}

AllEnabled(config) ==
    {PhaseRow(config, c, TRUE, TemplateOf(c)) : c \in Channels}

\* phase tables with an enabled row for some of the channels
EnabledTables ==
    {{PhaseRow("cfg-global", c, TRUE, TemplateOf(c)) : c \in S} :
         S \in SUBSET Channels}

\* the phase with the push row switched off
PushDisabled(config) ==
    {PhaseRow(config, c, c # PUSH, TemplateOf(c)) : c \in Channels}

\* preference rows in priority order: one row per channel at most
PrefLists ==
    UNION {{s \in [1..n -> [channel : Channels, enabled : BOOLEAN]] :
                \A i, j \in 1..n : i # j => s[i].channel # s[j].channel}
           : n \in 0..Min(MaxPrefs, Cardinality(Channels))}

----------------------------------------------------------------------------
(* Specifications *)

\* no render call under way
NoRendering == [segments |-> <<>>, context |-> <<>>, output |-> None]

Quiet ==
    /\ rendering = NoRendering
    /\ running = [w \in Workers |-> Idle]
    /\ logs = <<>>
    /\ tasks = EmptyBag
    /\ result = OrchestrationResult(TRUE, 0, <<>>, None)
    /\ taskResult = TaskResult(None, "none")
    /\ sendCalls = <<>>
    /\ events = 0

\* the end-to-end specification: one submitted event, a working
\* configuration. Runs over three channels are explored without faults, runs
\* over two channels with up to MaxFaults of them
Init ==
    /\ customers \in [CustomerIds -> {ContactFull, ContactPhoneOnly}]
    /\ prefs \in {<<>>,
                  <<[channel |-> EMAIL, enabled |-> TRUE],
                    [channel |-> WHATSAPP, enabled |-> TRUE]>>,
                  <<[channel |-> EMAIL, enabled |-> FALSE]>>}
    /\ configs = {GlobalConfig}
    /\ inbox \in {{p} : p \in DispatchPayloads}
    /\ Quiet
    /\ \/ phaseRows = AllEnabled("cfg-global") /\ faults = MaxFaults
       \/ phaseRows = PushDisabled("cfg-global") /\ faults = 0

\* the orchestration specification: one process_event call on stored data and
\* a payload drawn from four families
InitOrch ==
    /\ Quiet
    /\ \/ \* channel resolution: any phase table, any preference list
          /\ configs = {GlobalConfig}
          /\ phaseRows \in PhaseTables
          /\ customers \in [CustomerIds -> CustomerFixtures]
          /\ prefs \in PrefLists
          /\ inbox = {EventPayload(VEHICLE_READY, "mantenimiento", "entrega",
                                   CtxFull, None, None)}
          /\ faults = MaxFaults
       \/ \* contexts: any payload, the customer present or absent
          /\ configs = {GlobalConfig}
          /\ phaseRows \in EnabledTables
          /\ customers \in [CustomerIds -> CustomerFixtures \cup {NoRow}]
          /\ prefs = <<>>
          /\ inbox \in {{p} : p \in OrchPayloads}
          /\ faults = MaxFaults
       \/ \* storage and broker faults while queueing
          /\ configs = {GlobalConfig}
          /\ phaseRows \in {AllEnabled("cfg-global"), PushDisabled("cfg-global")}
          /\ customers \in [CustomerIds -> {ContactFull, ContactPhoneOnly,
                                            ContactBlankEmail}]
          /\ prefs \in {<<>>, <<[channel |-> WHATSAPP, enabled |-> TRUE],
                                [channel |-> EMAIL, enabled |-> FALSE]>>}
          /\ inbox \in {{p} : p \in DispatchPayloads}
          /\ faults = 0
       \/ \* configuration lookup
          /\ configs \in ConfigTables
          /\ phaseRows = AllEnabled("cfg-global")
                           \cup {PhaseRow("cfg-T1", PUSH, TRUE, "T-push")}
          /\ customers = [c \in CustomerIds |-> ContactFull]
          /\ prefs = <<>>
          /\ inbox \in {{p} : p \in LookupPayloads}
          /\ faults = MaxFaults

Next ==
    \/ \E p \in inbox, o \in [Channels -> QueueOutcomes] : ProcessEvent(p, o)
    \/ \E m \in BagToSet(tasks), configured \in BOOLEAN, response \in Responses,
          outcome \in QueueOutcomes, acked \in BOOLEAN :
           SendNotificationTask(m, configured, response, outcome, acked)
    \/ \E due \in SUBSET DOMAIN logs : RetryFailedNotifications(due)
    \/ \E cid \in CustomerIds, row \in UpdateRows : UpdateCustomer(cid, row)
    \/ \E i \in DOMAIN logs : MarkDelivered(i)

Spec == Init /\ [][Next]_vars

NextOrch ==
    \E p \in inbox, o \in [Channels -> QueueOutcomes] : ProcessEvent(p, o)

SpecOrch == InitOrch /\ [][NextOrch]_vars

\* a channel value the column accepts (choices are not enforced by the
\* table) and get_adapters() has no adapter for
UnregisteredChannel == "sms"

\* the arguments of queue_notification for a stored record of customer C1
StoredFields(channel, recipient, priority_order) ==
    [channel |-> channel, recipient |-> recipient, subject |-> "Aviso",
     body |-> "Orden OT-1 lista", event_type |-> VEHICLE_READY,
     customer_id |-> "C1", template_id |-> "T-push", template_name |-> "push",
     context |-> CtxFull, correlation_id |-> "uuid-1",
     priority_order |-> priority_order, parent_log_id |-> None]

\* the task specification: two queued records with their send messages, one
\* on a channel with an adapter, one written with a channel that has none
InitTask ==
    /\ customers = [c \in CustomerIds |-> ContactFull]
    /\ prefs = <<>>
    /\ configs = {GlobalConfig}
    /\ phaseRows = AllEnabled("cfg-global")
    /\ inbox = {}
    /\ events = 1
    /\ result = OrchestrationResult(TRUE, 2, <<>>, "uuid-1")
    /\ taskResult = TaskResult(None, "none")
    /\ \E ch \in Channels :
           logs = <<NewLog(LogId(1),
                           StoredFields(ch, GetRecipientForChannel(ContactFull, "C1", ch),
                                        ChannelOrder)),
                    NewLog(LogId(2),
                           StoredFields(UnregisteredChannel, "0991",
                                        <<UnregisteredChannel>>))>>
    /\ tasks = SetToBag({SendTaskMessage(LogId(1), 0, 0),
                         SendTaskMessage(LogId(2), 0, 0)})
    /\ sendCalls = <<0, 0>>
    /\ faults = 0
    /\ rendering = NoRendering
    /\ running = [w \in Workers |-> Idle]

NextTask ==
    \/ \E m \in BagToSet(tasks), configured \in BOOLEAN, response \in Responses,
          outcome \in QueueOutcomes, acked \in BOOLEAN :
           SendNotificationTask(m, configured, response, outcome, acked)
    \/ \E due \in SUBSET DOMAIN logs : RetryFailedNotifications(due)
    \/ \E i \in DOMAIN logs : MarkDelivered(i)

SpecTask == InitTask /\ [][NextTask]_vars

\* the overlap specification: one queued record whose send instruction the
\* broker has delivered twice, and two workers
InitRace ==
    /\ customers = [c \in CustomerIds |-> ContactFull]
    /\ prefs = <<>>
    /\ configs = {GlobalConfig}
    /\ phaseRows = AllEnabled("cfg-global")
    /\ inbox = {}
    /\ events = 1
    /\ result = OrchestrationResult(TRUE, 1, <<>>, "uuid-1")
    /\ taskResult = TaskResult(None, "none")
    /\ \E ch \in Channels :
           logs = <<NewLog(LogId(1),
                           StoredFields(ch, GetRecipientForChannel(ContactFull, "C1", ch),
                                        ChannelOrder))>>
    /\ tasks = SetToBag({SendTaskMessage(LogId(1), 0, 0)})
                  (+) SetToBag({SendTaskMessage(LogId(1), 0, 0)})
    /\ sendCalls = <<0>>
    /\ faults = 0
    /\ rendering = NoRendering
    /\ running = [w \in Workers |-> Idle]

NextRace ==
    \/ \E w \in Workers, m \in BagToSet(tasks) : SendLoad(w, m)
    \/ \E w \in Workers, configured \in BOOLEAN, response \in Responses :
           SendFinish(w, configured, response)

SpecRace == InitRace /\ [][NextRace]_vars

\* a retry message is lost: the worker that took it is killed before it runs
\* the task (the message is acknowledged when taken), or the broker drops it
LoseMessage(m) ==
    /\ BagIn(m, tasks)
    /\ m.retries >= 1
    /\ faults < MaxFaults
    /\ tasks' = tasks (-) SetToBag({m})
    /\ faults' = faults + 1
    /\ UNCHANGED <<customers, prefs, configs, phaseRows, logs, result, taskResult,
                   sendCalls, events, inbox, rendering, running>>

\* the sweep specification: one queued record with its send message; retry
\* messages may be lost
InitSweep ==
    /\ customers = [c \in CustomerIds |-> ContactFull]
    /\ prefs = <<>>
    /\ configs = {GlobalConfig}
    /\ phaseRows = AllEnabled("cfg-global")
    /\ inbox = {}
    /\ events = 1
    /\ result = OrchestrationResult(TRUE, 1, <<>>, "uuid-1")
    /\ taskResult = TaskResult(None, "none")
    /\ \E ch \in Channels :
           logs = <<NewLog(LogId(1),
                           StoredFields(ch, GetRecipientForChannel(ContactFull, "C1", ch),
                                        ChannelOrder))>>
    /\ tasks = SetToBag({SendTaskMessage(LogId(1), 0, 0)})
    /\ sendCalls = <<0>>
    /\ faults = 0
    /\ rendering = NoRendering
    /\ running = [w \in Workers |-> Idle]

NextSweep ==
    \/ \E m \in BagToSet(tasks), configured \in BOOLEAN, response \in Responses,
          outcome \in QueueOutcomes, acked \in BOOLEAN :
           SendNotificationTask(m, configured, response, outcome, acked)
    \/ \E due \in SUBSET DOMAIN logs : RetryFailedNotifications(due)
    \/ \E m \in BagToSet(tasks) : LoseMessage(m)

SpecSweep == InitSweep /\ [][NextSweep]_vars

\* send_notification_task for the message m on a deployment whose adapter
\* for the record's channel is not configured: is_configured() is false at
\* every execution, a standing condition and not a fault
SendUnconfigured(m) ==
    /\ BagIn(m, tasks)
    /\ LET i == LogIndex(m.log_id)
           log == logs[i]
       IN  /\ ~AlreadyProcessed(log)
           /\ log.channel \in Channels
           /\ logs' = [logs EXCEPT ![i].status = FAILED,
                                   ![i].error_reason = "not configured",
                                   ![i].error_code = NotConfiguredCode(log.channel)]
           /\ taskResult' = TaskResult(log.id, "error")
    /\ tasks' = tasks (-) SetToBag({m})
    /\ UNCHANGED <<customers, prefs, configs, phaseRows, result, sendCalls, events,
                   inbox, faults, rendering, running>>

\* the termination specification: one queued record; the adapter fails or is
\* not configured; workers run the messages of the queue and the beat
\* scheduler runs the sweep every 15 minutes
NextSettle ==
    \/ \E m \in BagToSet(tasks), configured \in BOOLEAN, response \in Responses,
          outcome \in QueueOutcomes, acked \in BOOLEAN :
           SendNotificationTask(m, configured, response, outcome, acked)
    \/ \E m \in BagToSet(tasks) : SendUnconfigured(m)
    \/ \E due \in SUBSET DOMAIN logs : RetryFailedNotifications(due)

FairSettle ==
    /\ WF_vars(\E m \in BagToSet(tasks) :
                   \/ SendUnconfigured(m)
                   \/ \E configured \in BOOLEAN, response \in Responses,
                         outcome \in QueueOutcomes, acked \in BOOLEAN :
                          SendNotificationTask(m, configured, response, outcome, acked))
    /\ WF_vars(\E due \in SUBSET DOMAIN logs : RetryFailedNotifications(due))

SpecSettle == InitSweep /\ [][NextSettle]_vars /\ FairSettle

\* sync_customer_task payloads for the customer C1: customer_data.get(...)
SyncData(first, last, email, phone, whatsapp) ==
    [customer_id |-> "C1", first_name |-> first, last_name |-> last,
     email |-> email, phone |-> phone, whatsapp |-> whatsapp]

SyncPayloads ==
    {SyncData(first, last, email, phone, None) :
         first \in {"Ana", None}, last \in {"Li", ""},
         email \in {"sync@x.ec", None}, phone \in {"0993", None}}

\* contexts of the events whose process_event calls race with the sync
SyncContexts ==
    {CtxFull,
     <<Item("nombre", "Ana Li"), Item("Email", "ana@x.ec"), Item("telefono", "0992")>>,
     <<Item("placa", "PBA123"), Item("orden", None)>>}

\* variant: the table takes a second row for the customer_id, the later one
\* being the one read back
InsertCustomerUnchecked(C, cid, row) == [ok |-> TRUE, customers |-> [C EXCEPT ![cid] = row]]

\* CustomerContactInfo.objects.create on the table C: customer_id is unique,
\* the insert of a second row for it raises IntegrityError
InsertCustomer(C, cid, row) ==
    IF C[cid].present THEN [ok |-> FALSE, customers |-> C]
    ELSE [ok |-> TRUE, customers |-> [C EXCEPT ![cid] = row]]

\* the row update_or_create inserts: defaults without its None entries, the
\* other columns at their field defaults
SyncCreated(d) ==
    CustomerRow(IF d.first_name = None THEN "" ELSE d.first_name,
                IF d.last_name = None THEN "" ELSE d.last_name,
                d.email, d.phone, d.whatsapp)

\* the row update_or_create saves over the row it found
SyncUpdated(row, d) ==
    [row EXCEPT !.first_name = IF d.first_name = None THEN @ ELSE d.first_name,
                !.last_name = IF d.last_name = None THEN @ ELSE d.last_name,
                !.email = IF d.email = None THEN @ ELSE d.email,
                !.phone = IF d.phone = None THEN @ ELSE d.phone,
                !.whatsapp = IF d.whatsapp = None THEN @ ELSE d.whatsapp]

SyncItem(d, stage) == [kind |-> "sync", data |-> d, stage |-> stage]

\* _get_customer, its read: CustomerContactInfo.objects.filter(...).first()
GetCustomerLoad(w, context) ==
    /\ ~running[w].busy
    /\ running' = [running EXCEPT ![w] = [busy |-> TRUE, context |-> context,
                                          found |-> customers["C1"].present]]
    /\ UNCHANGED <<customers, prefs, configs, phaseRows, logs, tasks, result,
                   taskResult, sendCalls, events, inbox, faults, rendering>>

\* _get_customer, the rest: auto-create when the read found no row and the
\* context is not empty; an exception of the insert is logged and swallowed
GetCustomerFinish(w) ==
    /\ running[w].busy
    /\ LET context == running[w].context
           made == AutoCreateCustomerFromContext("C1", context)
       IN  IF running[w].found \/ context = <<>> \/ made.raised \/ ~made.row.present
           THEN UNCHANGED customers
           ELSE customers' = InsertCustomer(customers, "C1", made.row).customers
    /\ running' = [running EXCEPT ![w] = Idle]
    /\ UNCHANGED <<prefs, configs, phaseRows, logs, tasks, result, taskResult,
                   sendCalls, events, inbox, faults, rendering>>

\* update_or_create, its read: select_for_update().get(customer_id=...)
SyncLoad(item) ==
    /\ item \in inbox
    /\ item.stage = "pending"
    /\ inbox' = (inbox \ {item})
                   \cup {SyncItem(item.data, IF customers["C1"].present THEN "found"
                                             ELSE "absent")}
    /\ UNCHANGED <<customers, prefs, configs, phaseRows, logs, tasks, result,
                   taskResult, sendCalls, events, faults, rendering, running>>

\* update_or_create, the rest: the row found is updated; when none was found
\* one is inserted, and when that insert meets a row created meanwhile, the
\* row is read again and updated
SyncFinish(item) ==
    /\ item \in inbox
    /\ item.stage \in {"found", "absent"}
    /\ LET made == InsertCustomer(customers, "C1", SyncCreated(item.data))
       IN  customers' =
               IF item.stage = "absent" /\ made.ok THEN made.customers
               ELSE [customers EXCEPT !["C1"] = SyncUpdated(customers["C1"], item.data)]
    /\ inbox' = (inbox \ {item}) \cup {SyncItem(item.data, "done")}
    /\ UNCHANGED <<prefs, configs, phaseRows, logs, tasks, result, taskResult,
                   sendCalls, events, faults, rendering, running>>

\* the synchronization specification: the customer has no row yet; two
\* process_event calls look the customer up while sync_customer_task runs
InitSync ==
    /\ Quiet
    /\ customers = [c \in CustomerIds |-> NoRow]
    /\ prefs = <<>>
    /\ configs = {GlobalConfig}
    /\ phaseRows = AllEnabled("cfg-global")
    /\ inbox \in {{SyncItem(d, "pending")} : d \in SyncPayloads}
    /\ faults = 0

NextSync ==
    \/ \E w \in Workers, context \in SyncContexts : GetCustomerLoad(w, context)
    \/ \E w \in Workers : GetCustomerFinish(w)
    \/ \E item \in inbox : SyncLoad(item)
    \/ \E item \in inbox : SyncFinish(item)

SpecSync == InitSync /\ [][NextSync]_vars

\* a template text as its pieces: literal text and placeholders
Literal(text) == [placeholder |-> FALSE, text |-> text]
Placeholder(name) == [placeholder |-> TRUE, text |-> name]

RECURSIVE TemplateText(_)
TemplateText(segments) ==
    IF segments = <<>> THEN ""
    ELSE (IF segments[1].placeholder THEN "{{" \o segments[1].text \o "}}"
          ELSE segments[1].text) \o TemplateText(Tail(segments))

\* names written in templates and as context keys: case and accent variants
\* of two names (6 is o with an acute accent, 9 its capital, ' the combining
\* acute accent)
NamePool == {"nombre", "Nombre", "N9MBRE", "No'mbre", "placa"}

SegmentPool ==
    {Literal("Hola ")} \cup {Placeholder(n) : n \in NamePool}

MaxSegments == 2    \* pieces of a template text
MaxItems == 2       \* items of a context

RenderTemplates ==
    UNION {[1..n -> SegmentPool] : n \in 1..MaxSegments}

\* contexts as dicts: no key twice
RenderContexts ==
    UNION {{c \in [1..n -> [k : NamePool, v : {"Ana", None}]] :
                \A i, j \in 1..n : i # j => c[i].k # c[j].k}
           : n \in 0..MaxItems}

\* the render specification: one call of render on a template text and a
\* context
InitRender ==
    /\ customers = [c \in CustomerIds |-> ContactFull]
    /\ prefs = <<>>
    /\ configs = {GlobalConfig}
    /\ phaseRows = AllEnabled("cfg-global")
    /\ inbox = {}
    /\ logs = <<>>
    /\ tasks = EmptyBag
    /\ result = OrchestrationResult(TRUE, 0, <<>>, None)
    /\ taskResult = TaskResult(None, "none")
    /\ sendCalls = <<>>
    /\ events = 0
    /\ faults = 0
    /\ running = [w \in Workers |-> Idle]
    /\ \E t \in RenderTemplates, c \in RenderContexts :
           rendering = [segments |-> t, context |-> c, output |-> None]

\* template_service.render(template_body, context)
RenderCall ==
    /\ rendering.output = None
    /\ rendering.segments # <<>>
    /\ rendering' = [rendering EXCEPT
                        !.output = Render(TemplateText(rendering.segments),
                                          rendering.context)]
    /\ UNCHANGED <<customers, prefs, configs, phaseRows, logs, tasks, result,
                   taskResult, sendCalls, events, inbox, faults, running>>

NextRender == RenderCall

SpecRender == InitRender /\ [][NextRender]_vars

----------------------------------------------------------------------------
(* Vocabulary of the properties *)

NonEmpty(v) == v # None /\ v # ""

\* the customer row c holds an address for the channel
HasAddress(c, channel) ==
    CASE channel = EMAIL    -> NonEmpty(c.email)
      [] channel = WHATSAPP -> NonEmpty(c.whatsapp) \/ NonEmpty(c.phone)
      [] channel = PUSH     -> TRUE

\* this step called the adapter for record i and the adapter reported failure
SendFailed(i) ==
    /\ sendCalls'[i] = sendCalls[i] + 1
    /\ logs'[i].status # SENT
    /\ taskResult'.status # "crashed"

\* every send attempt of record i so far returned success=false: the failures
\* are consecutive, no attempt succeeded or left the adapter as an exception
ConsecutiveFailures(i) == sendCalls[i] = logs[i].retry_count

\* this step put one more retry message for record i on the queue
RetryScheduled(i) ==
    \E msg \in BagToSet(tasks') :
        /\ msg.log_id = logs[i].id
        /\ msg.retries >= 1
        /\ CopiesIn(msg, tasks') > CopiesIn(msg, tasks)

\* this step put one more retry message for record i, due after delay seconds
RetryScheduledAfter(i, delay) ==
    \E msg \in BagToSet(tasks') :
        /\ msg.log_id = logs[i].id
        /\ msg.retries >= 1
        /\ msg.countdown = delay
        /\ CopiesIn(msg, tasks') > CopiesIn(msg, tasks)

\* the records of this step are those schedule_fallback leaves for record i
FallbackInvoked(i) ==
    \E outcome \in QueueOutcomes :
        logs' = ScheduleFallback([logs EXCEPT ![i] = logs'[i]], tasks, logs'[i],
                                 outcome).logs

\* this step executes send_notification_task for the message m
Executes(m) ==
    \E configured \in BOOLEAN, response \in Responses, outcome \in QueueOutcomes,
       acked \in BOOLEAN :
        SendNotificationTask(m, configured, response, outcome, acked)

\* this step is the process_event call for the payload p
Processes(p) ==
    /\ p \in inbox
    /\ inbox' = inbox \ {p}
    /\ events' = events + 1

FirstCode(r) == IF r.errors = <<>> THEN "none" ELSE r.errors[1].code

----------------------------------------------------------------------------
(* Retries and fallback *)

\* C1: when the adapter reports failure for a record all of whose earlier
\* attempts reported failure too, its retry_count goes up by one; if that reaches max_retries the record becomes Failed and
\* schedule_fallback runs for it; if it does not, a queued record stays queued
\* and one more retry message is on the queue.
C1_RetryExhaustion ==
    [][\A i \in DOMAIN logs :
          (SendFailed(i) /\ ConsecutiveFailures(i)) =>
              /\ logs'[i].retry_count = logs[i].retry_count + 1
              /\ logs'[i].retry_count >= logs[i].max_retries =>
                     logs'[i].status = FAILED /\ FallbackInvoked(i)
              /\ (logs'[i].retry_count < logs[i].max_retries
                    /\ logs[i].status = QUEUED) =>
                     logs'[i].status = QUEUED /\ RetryScheduled(i)]_vars

\* a record that failed max_retries = 3 times, is Failed, and has a fallback
C1_Witness ==
    \E i, j \in DOMAIN logs :
        /\ taskResult = TaskResult(logs[i].id, "failed")
        /\ logs[i].status = FAILED
        /\ logs[i].max_retries = 3
        /\ logs[i].retry_count = 3
        /\ sendCalls[i] = 3
        /\ logs[j].parent_log_id = logs[i].id

LaterWithAddress(i) ==
    LET P == logs[i].context_data.priority_order
    IN  {j \in DOMAIN P : /\ j > IndexOf(P, logs[i].channel)
                          /\ HasAddress(customers[logs[i].recipient_id], P[j])}

\* C3: when a record becomes Failed by exhausting its retries, and storage
\* and broker work, one fallback record is created on the first channel after
\* its own in its priority list for which the customer has an address, and
\* none when there is no such channel.
C3_FallbackSkipsToAddress ==
    [][\A i \in DOMAIN logs :
          (SendFailed(i) /\ logs'[i].status = FAILED /\ faults' = faults
             /\ logs[i].channel \in Range(logs[i].context_data.priority_order)) =>
              IF LaterWithAddress(i) = {}
              THEN Len(logs') = Len(logs)
              ELSE /\ Len(logs') = Len(logs) + 1
                   /\ logs'[Len(logs')].channel =
                          logs[i].context_data.priority_order[
                              CHOOSE j \in LaterWithAddress(i) :
                                  \A k \in LaterWithAddress(i) : j <= k]
                   /\ NonEmpty(logs'[Len(logs')].recipient_address)]_vars

\* C4: executing the task for a record that is Sent or Delivered calls no
\* adapter, changes no record and adds no message to the queue.
C4_SkipIsNoOp ==
    [][\A m \in BagToSet(tasks) :
          (logs[LogIndex(m.log_id)].status \in {SENT, DELIVERED} /\ Executes(m)) =>
              /\ logs' = logs
              /\ sendCalls' = sendCalls
              /\ tasks' = tasks \/ tasks' = tasks (-) SetToBag({m})]_vars

\* the task ran for a record that had been sent, after one adapter call
C4_Witness ==
    \E i \in DOMAIN logs :
        /\ taskResult = TaskResult(logs[i].id, "skipped")
        /\ logs[i].status \in {SENT, DELIVERED}
        /\ sendCalls[i] = 1

----------------------------------------------------------------------------
(* process_event *)

\* C5: a process_event call that ends in a validation error (no active
\* configuration, recipient not found, template variables missing) returns
\* success=false and notifications_queued=0 and leaves the records, the queue
\* and the customer rows as they were.
C5_ValidationLeavesNoTrace ==
    [][\A p \in inbox :
          (Processes(p) /\ FirstCode(result') \in {"config_not_found",
                                                  "customer_not_found",
                                                  "missing_variables"}) =>
              /\ result'.success = FALSE
              /\ result'.notifications_queued = 0
              /\ logs' = logs
              /\ tasks' = tasks
              /\ customers' = customers]_vars

\* the enabled and templated rows of the phase of the payload's configuration
CandidateRows(p) ==
    {r \in phaseRows : /\ r.config = FindOrchestrationConfig(p).id
                       /\ r.phase = p.phase_id
                       /\ r.enabled
                       /\ r.template # None}

\* the variables the candidate templates refer to, in subject or body
Referenced(p) ==
    UNION {GetVariables(Templates[r.template].body)
             \cup (IF Templates[r.template].subject = None THEN {}
                   ELSE GetVariables(Templates[r.template].subject))
           : r \in CandidateRows(p)}

\* no key of the context equals the variable after normalization
Absent(v, ctx) == \A n \in DOMAIN ctx : Normalize(ctx[n].k) # Normalize(v)

\* the call for p got as far as the validation of the template variables
ReachedValidation(p) ==
    /\ p.event_type # CUSTOM
    /\ FirstCode(result') \notin {"config_not_found", "no_channels_enabled",
                                  "exception", "customer_not_found"}

\* C6: a call for a non-custom event that reaches the validation fails with
\* missing variables exactly when some variable a candidate template refers to
\* is absent from the enriched context, and the error then lists the
\* normalized names of exactly the absent ones.
C6_MissingVariablesExact ==
    [][\A p \in inbox :
          (Processes(p) /\ ReachedValidation(p)) =>
              LET ctx == EnrichContextMinimal(p, customers'[p.customer_id])
                  absent == {v \in Referenced(p) : Absent(v, ctx)}
              IN  /\ FirstCode(result') = "missing_variables" <=> absent # {}
                  /\ absent # {} =>
                         /\ result'.success = FALSE
                         /\ result'.errors[1].detail =
                                {Normalize(v) : v \in absent}]_vars

\* a call failed for two absent variables, one of them written with another
\* case in the template
C6_Witness ==
    /\ events = 1
    /\ result.success = FALSE
    /\ FirstCode(result) = "missing_variables"
    /\ result.errors[1].detail = {"orden", "placa"}
    /\ logs = <<>>

\* the channels with a candidate row, an address of the customer row c and no
\* preference row that switches them off
EligibleChannels(p, c) ==
    {ch \in Channels : /\ \E r \in CandidateRows(p) : r.channel = ch
                       /\ HasAddress(c, ch)
                       /\ \A n \in DOMAIN prefs :
                              prefs[n].channel = ch => prefs[n].enabled}

\* the call for p found an active configuration and a recipient
ConfigAndRecipient(p) ==
    /\ p.event_type # CUSTOM
    /\ FirstCode(result') \notin {"config_not_found", "exception",
                                  "customer_not_found"}
    /\ FirstCode(result') = "no_channels_enabled" \/ customers'[p.customer_id].present

\* no channel is eligible for p after this step
NoneEligible(p) ==
    \/ CandidateRows(p) = {}
    \/ /\ customers'[p.customer_id].present
       /\ EligibleChannels(p, customers'[p.customer_id]) = {}

\* C7 as amended: for a non-custom event with an active configuration and a
\* recipient, and with no template variable missing, the call returns
\* success=true and notifications_queued=0 and creates no record whenever no
\* channel is eligible.
C7_NothingToSendIsSuccess ==
    [][\A p \in inbox :
          (Processes(p) /\ ConfigAndRecipient(p) /\ NoneEligible(p)
             /\ FirstCode(result') # "missing_variables") =>
              /\ result'.success = TRUE
              /\ result'.notifications_queued = 0
              /\ logs' = logs]_vars

\* a call that found enabled channels, none of them eligible, and succeeded
C7_Witness ==
    /\ events = 1
    /\ result.success = TRUE
    /\ result.notifications_queued = 0
    /\ FirstCode(result) = "no_valid_channels"
    /\ logs = <<>>

\* C7 as stated: for a non-custom event with an active configuration and a
\* recipient, the call returns success=true and notifications_queued=0 and
\* creates no record whenever no channel is eligible.
C7_AsStated ==
    [][\A p \in inbox :
          (Processes(p) /\ ConfigAndRecipient(p) /\ NoneEligible(p)) =>
              /\ result'.success = TRUE
              /\ result'.notifications_queued = 0
              /\ logs' = logs]_vars

\* the records this step created
NewRecords == {n \in DOMAIN logs' : n \notin DOMAIN logs}

\* C8: in a call that reaches the queueing loop, every eligible channel whose
\* queue_notification call completes has a new record and a send message,
\* whatever happened to the other channels; notifications_queued counts these
\* channels, errors holds one entry for each other eligible channel, and
\* success is true exactly when errors is empty.
C8_QueueErrorsCollected ==
    [][\A p \in inbox : \A o \in [Channels -> QueueOutcomes] :
          (p.event_type # CUSTOM /\ ProcessEvent(p, o)
             /\ FirstCode(result') \in {"none", "queue_failed"}) =>
              LET R == EligibleChannels(p, customers'[p.customer_id])
                  ok == {ch \in R : o[ch] = "ok"}
              IN  /\ result'.notifications_queued = Cardinality(ok)
                  /\ \A ch \in ok :
                         \E n \in NewRecords :
                             /\ logs'[n].channel = ch
                             /\ BagIn(SendTaskMessage(logs'[n].id, 0, 0), tasks')
                  /\ Len(result'.errors) = Cardinality(R \ ok)
                  /\ {result'.errors[n].detail : n \in DOMAIN result'.errors} = R \ ok
                  /\ result'.success <=> R \ ok = {}]_vars

\* a call that queued one channel and failed to queue another
C8_Witness ==
    /\ events = 1
    /\ result.success = FALSE
    /\ result.notifications_queued >= 1
    /\ Len(result.errors) = 1
    /\ FirstCode(result) = "queue_failed"
    /\ BagCardinality(tasks) = result.notifications_queued

\* C9: for the enabled rows of a phase, the preference rows and the contact
\* row of a customer, the list _resolve_channels returns holds no channel
\* twice and no entry without a recipient address.
C9_ResolverNoDuplicates ==
    \A cid \in CustomerIds :
        customers[cid].present =>
            LET R == ResolveChannels(
                         EnabledChannels(GetPhaseConfigs(GlobalConfig, "entrega")),
                         GetCustomerPreferences(cid), customers[cid], cid)
            IN  /\ \A a, b \in DOMAIN R :
                       R[a].config.channel = R[b].config.channel => a = b
                /\ \A a \in DOMAIN R : NonEmpty(R[a].recipient)

\* a call resolved two channels for a customer with two enabled preference
\* rows, one of them for a channel without an address
C9_Witness ==
    /\ events = 1
    /\ Len(logs) >= 2
    /\ Len(prefs) = 2
    /\ \A n \in DOMAIN prefs : prefs[n].enabled
    /\ \E n \in DOMAIN prefs : ~HasAddress(customers["C1"], prefs[n].channel)
    /\ \E n \in DOMAIN prefs : logs[1].channel = prefs[n].channel

\* C10: a custom event needs no orchestration configuration; its call fails
\* and queues nothing unless the context has the keys subject and body;
\* otherwise, storage and broker working, it creates one record for each of
\* email and whatsapp for which the customer has an address and no other; no
\* record of a custom event, first or fallback, is on push.
C10_CustomEmailWhatsappOnly ==
    [][/\ \A p \in inbox :
              (Processes(p) /\ p.event_type = CUSTOM) =>
                  IF ~(HasKey(p.context, "subject") /\ HasKey(p.context, "body"))
                  THEN /\ result'.success = FALSE
                       /\ result'.notifications_queued = 0
                       /\ logs' = logs
                       /\ tasks' = tasks
                  ELSE (faults' = faults /\ customers[p.customer_id].present) =>
                       LET with == {ch \in {EMAIL, WHATSAPP} :
                                        HasAddress(customers[p.customer_id], ch)}
                       IN  /\ {logs'[n].channel : n \in NewRecords} = with
                           /\ Cardinality(NewRecords) = Cardinality(with)
                           /\ result'.notifications_queued = Cardinality(with)
                           /\ result'.success <=> with # {}
       /\ \A n \in DOMAIN logs' :
              logs'[n].event_type = CUSTOM => logs'[n].channel \in {EMAIL, WHATSAPP}]_vars

\* a custom event whose email record failed and fell back to whatsapp
C10_Witness ==
    \E i, j \in DOMAIN logs :
        /\ logs[i].event_type = CUSTOM
        /\ logs[i].channel = EMAIL
        /\ logs[i].status = FAILED
        /\ logs[j].event_type = CUSTOM
        /\ logs[j].parent_log_id = logs[i].id
        /\ logs[j].channel = WHATSAPP

----------------------------------------------------------------------------
(* Custom events, correlation, non-retryable failures *)

\* the context carries a display name a contact row can be made from
CarriesName(ctx) ==
    \E n \in DOMAIN ctx : /\ Normalize(ctx[n].k) = "nombre"
                          /\ Truthy(ctx[n].v)
                          /\ SplitName(ctx[n].v) # <<>>

\* C11: a custom event with subject and body, for a customer without a
\* contact row and with a display name in the context, gets a contact row
\* made from the context and does not fail with recipient-not-found.
C11_CustomSynthesizesRecipient ==
    [][\A p \in inbox :
          (Processes(p) /\ p.event_type = CUSTOM
             /\ HasKey(p.context, "subject") /\ HasKey(p.context, "body")
             /\ ~customers[p.customer_id].present
             /\ CarriesName(p.context)) =>
              /\ customers'[p.customer_id].present
              /\ FirstCode(result') # "customer_not_found"]_vars

\* C12: the id a process_event call returns is the caller's when one was
\* supplied and otherwise a new one that no earlier record carries; every
\* record the call creates carries the returned id, and every fallback record
\* carries the id of the record it descends from.
C12_OneCorrelationId ==
    [][/\ \A p \in inbox :
              Processes(p) =>
                  /\ IF Truthy(p.correlation_id)
                     THEN result'.correlation_id = p.correlation_id
                     ELSE /\ Truthy(result'.correlation_id)
                          /\ \A n \in DOMAIN logs :
                                 logs[n].correlation_id # result'.correlation_id
                  /\ \A n \in NewRecords :
                         logs'[n].correlation_id = result'.correlation_id
       /\ \A n \in NewRecords :
              logs'[n].parent_log_id # None =>
                  \E i \in DOMAIN logs :
                      /\ logs[i].id = logs'[n].parent_log_id
                      /\ logs'[n].correlation_id = logs[i].correlation_id]_vars

\* a fallback record of an event whose caller supplied the id, carrying it
C12_Witness ==
    \E i, j \in DOMAIN logs :
        /\ logs[j].parent_log_id = logs[i].id
        /\ logs[i].status = FAILED
        /\ logs[j].correlation_id = "corr-1"
        /\ result.correlation_id = "corr-1"
        /\ result.notifications_queued >= 1

\* the error code of a channel whose adapter is not configured
NotConfiguredCodes ==
    {<<EMAIL, "EMAIL_NOT_CONFIGURED">>, <<WHATSAPP, "WHATSAPP_NOT_CONFIGURED">>,
     <<PUSH, "PUSH_NOT_CONFIGURED">>}

\* C13: when the task runs for a record that is not yet sent and whose
\* channel has no adapter, or whose adapter is not configured, the record
\* becomes Failed with the code UNKNOWN_CHANNEL or <CHANNEL>_NOT_CONFIGURED,
\* the adapter is not called, retry_count and next_retry_at keep their values,
\* and no message and no record is added.
C13_NonRetryableFailsFast ==
    [][\A m \in BagToSet(tasks) :
          \A configured \in BOOLEAN, response \in Responses,
             outcome \in QueueOutcomes, acked \in BOOLEAN :
              LET i == LogIndex(m.log_id)
              IN  (/\ SendNotificationTask(m, configured, response, outcome, acked)
                   /\ logs[i].status \notin {SENT, DELIVERED}
                   /\ logs[i].channel \notin Channels \/ ~configured) =>
                      /\ logs'[i].status = FAILED
                      /\ IF logs[i].channel \notin Channels
                         THEN logs'[i].error_code = "UNKNOWN_CHANNEL"
                         ELSE <<logs[i].channel, logs'[i].error_code>>
                                  \in NotConfiguredCodes
                      /\ sendCalls' = sendCalls
                      /\ logs'[i].retry_count = logs[i].retry_count
                      /\ logs'[i].next_retry_at = logs[i].next_retry_at
                      /\ Len(logs') = Len(logs)
                      /\ \A msg \in BagToSet(tasks') :
                             CopiesIn(msg, tasks') <= CopiesIn(msg, tasks)]_vars

\* one record failed for its unknown channel and one for its unconfigured
\* adapter, neither after an adapter call
C13_Witness ==
    \E i, j \in DOMAIN logs :
        /\ logs[i].status = FAILED
        /\ logs[i].error_code = "UNKNOWN_CHANNEL"
        /\ logs[j].status = FAILED
        /\ logs[j].error_code = "WHATSAPP_NOT_CONFIGURED"
        /\ sendCalls[i] = 0 /\ sendCalls[j] = 0
        /\ logs[i].retry_count = 0 /\ logs[j].retry_count = 0
        /\ logs[i].next_retry_at = Null /\ logs[j].next_retry_at = Null
        /\ tasks = EmptyBag

\* C14: whenever the task calls the adapter for a record and the record is
\* not Sent afterwards, the failure has arrived as a result: the task has not
\* ended in an exception of the adapter, and retry_count has gone up by one.
C14_AdapterFailuresAreResults ==
    [][\A i \in DOMAIN logs :
          (sendCalls'[i] = sendCalls[i] + 1 /\ logs'[i].status # SENT) =>
              /\ taskResult'.status # "crashed"
              /\ logs'[i].retry_count = logs[i].retry_count + 1]_vars

----------------------------------------------------------------------------
(* Rendering *)

\* the case and accent variants of one name
VariantClasses ==
    {{"nombre", "Nombre", "N9MBRE", "No'mbre"}, {"placa"}}

SameName(a, b) == \E class \in VariantClasses : a \in class /\ b \in class

\* the contexts got from ctx by writing keys in another case or accent
KeyVariants(ctx) ==
    {c \in RenderContexts :
        /\ Len(c) = Len(ctx)
        /\ \A n \in DOMAIN ctx : c[n].v = ctx[n].v /\ SameName(c[n].k, ctx[n].k)}

\* the templates got from segments by writing the placeholder names for
\* which matched(name) holds in another case or accent
NameVariants(segments, matched(_)) ==
    {t \in RenderTemplates :
        /\ Len(t) = Len(segments)
        /\ \A n \in DOMAIN segments :
               \/ t[n] = segments[n]
               \/ /\ segments[n].placeholder /\ t[n].placeholder
                  /\ SameName(t[n].text, segments[n].text)
                  /\ matched(segments[n].text)}

\* some key of the context is a variant of the name
KeyFor(name, ctx) == \E n \in DOMAIN ctx : SameName(ctx[n].k, name)

\* C15 as amended: the output of render stays the same when a context key is
\* written in another case or accent, and when the name of a placeholder that
\* matches a context key is; a placeholder that matches no key is left as it
\* is written.
C15_VariantsRenderAlike ==
    rendering.output # None =>
        /\ \A c \in KeyVariants(rendering.context) :
               Render(TemplateText(rendering.segments), c) = rendering.output
        /\ \A t \in NameVariants(rendering.segments,
                                 LAMBDA name : KeyFor(name, rendering.context)) :
               Render(TemplateText(t), rendering.context) = rendering.output

\* 'Hola {{Nombre}}' rendered to 'Hola Ana' with the key written with an
\* accent and in capitals
C15_Witness ==
    /\ TemplateText(rendering.segments) = "Hola {{Nombre}}"
    /\ rendering.context = <<[k |-> "N9MBRE", v |-> "Ana"]>>
    /\ rendering.output = "Hola Ana"

\* C15 as stated: the output of render stays the same when a context key or
\* any placeholder name is written in another case or accent.
C15_AsStated ==
    rendering.output # None =>
        /\ \A c \in KeyVariants(rendering.context) :
               Render(TemplateText(rendering.segments), c) = rendering.output
        /\ \A t \in NameVariants(rendering.segments, LAMBDA name : TRUE) :
               Render(TemplateText(t), rendering.context) = rendering.output

----------------------------------------------------------------------------
(* Terminal records, bounds on retries, the sweep *)

\* Sent, Delivered, or Failed with the retries used up
Terminal(log) ==
    \/ log.status \in {SENT, DELIVERED}
    \/ log.status = FAILED /\ log.retry_count >= log.max_retries

\* C16: a record that is Sent, Delivered, or Failed with its retries used up
\* keeps its status (but for a delivery receipt on a Sent record), its
\* retry_count and its error fields in every later step; the adapter is not
\* called for it again and no new fallback record names it as its parent.
C16_TerminalIsImmutable ==
    [][\A i \in DOMAIN logs :
          Terminal(logs[i]) =>
              /\ \/ logs'[i].status = logs[i].status
                 \/ logs[i].status = SENT /\ logs'[i].status = DELIVERED
              /\ logs'[i].retry_count = logs[i].retry_count
              /\ logs'[i].error_reason = logs[i].error_reason
              /\ logs'[i].error_code = logs[i].error_code
              /\ sendCalls'[i] = sendCalls[i]
              /\ \A n \in NewRecords : logs'[n].parent_log_id # logs[i].id]_vars

\* C17: in every reachable state every record has retry_count <= max_retries.
C17_RetryCountBounded ==
    \A i \in DOMAIN logs : logs[i].retry_count <= logs[i].max_retries

\* C18: executions of the task for one record do not race: the adapter is
\* never called for a record that another execution has already brought to
\* Sent, and every failed send raises the stored retry_count by one.
C18_OverlappingExecutionsSerialize ==
    [][\A i \in DOMAIN logs :
          sendCalls'[i] = sendCalls[i] + 1 =>
              /\ logs[i].status \notin {SENT, DELIVERED}
              /\ (logs'[i].status # SENT /\ taskResult'.status # "crashed") =>
                     logs'[i].retry_count = logs[i].retry_count + 1]_vars

\* a send of the record failed, retries remain and next_retry_at is set
AwaitingRetry(log) ==
    /\ log.status \notin {SENT, DELIVERED}
    /\ log.retry_count >= 1
    /\ log.retry_count < log.max_retries
    /\ log.next_retry_at # Null

\* C19: a record awaiting retry is never stranded: a sweep that runs once its
\* next_retry_at has elapsed picks it up, whether or not its retry message is
\* still on the queue.
C19_SweepRescuesRetries ==
    \A i \in DOMAIN logs :
        AwaitingRetry(logs[i]) => i \in PendingRetries(DOMAIN logs)

\* this step moves record i to Failed
BecomesFailed(i) ==
    /\ logs[i].status # FAILED
    /\ logs'[i].status = FAILED

\* C20: every step that moves a record to Failed, by exhausted retries or by
\* a non-retryable condition, runs the fallback for it: when a later channel
\* of its priority list has an address for the customer and storing the
\* fallback does not fail, a record whose parent is the failed one is created.
C20_EveryFailureFallsBack ==
    [][\A i \in DOMAIN logs :
          (BecomesFailed(i) /\ taskResult'.status # "raised"
             /\ logs[i].channel \in Range(logs[i].context_data.priority_order)
             /\ LaterWithAddress(i) # {}) =>
              \E n \in NewRecords : logs'[n].parent_log_id = logs[i].id]_vars

----------------------------------------------------------------------------
(* Fallback chains *)

\* this step put a send message for record n on the queue, due after delay
\* seconds
SendQueuedAfter(n, delay) ==
    CopiesIn(SendTaskMessage(logs'[n].id, 0, delay), tasks') >
        CopiesIn(SendTaskMessage(logs'[n].id, 0, delay), tasks)

\* C21: when a record becomes Failed by exhausting its retries, storage and
\* broker work, and a later channel of its priority list has an address for
\* the customer (channels without one being skipped), the step creates a
\* record whose parent is the failed record, in status Queued, its send
\* message due after the fallback delay of 600 s.
C21_FallbackParentIsFailedRecord ==
    [][\A i \in DOMAIN logs :
          (SendFailed(i) /\ BecomesFailed(i) /\ faults' = faults
             /\ logs[i].channel \in Range(logs[i].context_data.priority_order)
             /\ LaterWithAddress(i) # {}) =>
              \E n \in NewRecords :
                  /\ logs'[n].parent_log_id = logs[i].id
                  /\ logs'[n].status = QUEUED
                  /\ SendQueuedAfter(n, FallbackDelaySeconds)]_vars

\* the records on the parent chain of record j, as positions of the table
RECURSIVE ChainOf(_)
ChainOf(j) ==
    IF logs[j].parent_log_id = None \/ ~Exists(logs, logs[j].parent_log_id) THEN {}
    ELSE {LogIndex(logs[j].parent_log_id)} \cup ChainOf(LogIndex(logs[j].parent_log_id))

\* the fallback records that descend from record i
Descendants(i) == {j \in DOMAIN logs : i \in ChainOf(j)}

\* record j's channel comes after its parent's in the priority list they share
LaterThanParent(j) ==
    LET P == logs[j].context_data.priority_order
        parent == logs[LogIndex(logs[j].parent_log_id)]
    IN  /\ logs[j].channel \in Range(P)
        /\ parent.channel \in Range(P)
        /\ IndexOf(P, logs[j].channel) > IndexOf(P, parent.channel)

\* C22: every fallback record's channel comes strictly later in the stored
\* priority list than its parent's, and an initial record with a priority
\* list of n channels has at most n-1 fallback descendants.
C22_FallbackChainBounded ==
    /\ \A j \in DOMAIN logs : logs[j].parent_log_id # None => LaterThanParent(j)
    /\ \A i \in DOMAIN logs :
           logs[i].parent_log_id = None =>
               Cardinality(Descendants(i)) <=
                   Max(Len(logs[i].context_data.priority_order), 1) - 1

----------------------------------------------------------------------------
(* One event, its records *)

\* C23: among the records of one event (one correlation id), initial sends
\* and fallbacks together, no two are on the same channel.
C23_OneRecordPerChannel ==
    \A i, j \in DOMAIN logs :
        (i # j /\ logs[i].correlation_id = logs[j].correlation_id) =>
            logs[i].channel # logs[j].channel

----------------------------------------------------------------------------
(* Termination *)

\* no send message for record i is on the queue and the sweep would not
\* re-queue it
Settled(i) ==
    /\ \A m \in BagToSet(tasks) : m.log_id # logs[i].id
    /\ i \notin PendingRetries(DOMAIN logs)

\* C24: the record the run starts with is eventually settled for good: from
\* some point on no send task is pending for it and the sweep leaves it
\* alone, whatever the adapter does.
C24_EveryRecordSettles == <>[]Settled(1)

----------------------------------------------------------------------------
(* Channel resolution, its order *)

\* the channels of the enabled rows of the phase "entrega"
PhaseChannels ==
    Range([n \in DOMAIN EnabledChannels(GetPhaseConfigs(GlobalConfig, "entrega")) |->
              EnabledChannels(GetPhaseConfigs(GlobalConfig, "entrega"))[n].channel])

\* the customer's preference rows, in rank order, that are switched on, for a
\* channel of the phase and with an address of the customer
UsablePreferences(cid) ==
    SelectSeq(prefs, LAMBDA pr : /\ pr.enabled
                                 /\ pr.channel \in PhaseChannels
                                 /\ HasAddress(customers[cid], pr.channel))

\* the channels of the phase without a preference row, with an address
Unranked(cid) ==
    {ch \in PhaseChannels : /\ \A n \in DOMAIN prefs : prefs[n].channel # ch
                            /\ HasAddress(customers[cid], ch)}

\* the channels of the list _resolve_channels returns for the customer
ResolvedChannels(cid) ==
    LET R == ResolveChannels(EnabledChannels(GetPhaseConfigs(GlobalConfig, "entrega")),
                             GetCustomerPreferences(cid), customers[cid], cid)
    IN  [a \in DOMAIN R |-> R[a].config.channel]

\* C25: the list _resolve_channels returns is the channels of the customer's
\* enabled preference rows in rank order (those enabled for the phase and
\* with an address), then the channels of the phase without a preference
\* row (with an address), in some order; a channel with a disabled
\* preference row is not in it.
C25_ResolverOrder ==
    \A cid \in CustomerIds :
        customers[cid].present =>
            LET chans == ResolvedChannels(cid)
                ranked == UsablePreferences(cid)
                k == Len(ranked)
            IN  /\ Len(chans) = k + Cardinality(Unranked(cid))
                /\ \A a \in 1..k : chans[a] = ranked[a].channel
                /\ {chans[a] : a \in (k + 1)..Len(chans)} = Unranked(cid)
                /\ \A ch \in DisabledChannels(cid) : ch \notin Range(chans)

\* a call for a customer who ranks whatsapp first and has switched email off,
\* all three channels being enabled for the phase: whatsapp, then push
C25_Witness ==
    /\ events = 1
    /\ phaseRows = AllEnabled("cfg-global")
    /\ prefs = <<[channel |-> WHATSAPP, enabled |-> TRUE],
                 [channel |-> EMAIL, enabled |-> FALSE]>>
    /\ HasAddress(customers["C1"], EMAIL)
    /\ Len(logs) = 2
    /\ logs[1].channel = WHATSAPP
    /\ logs[2].channel = PUSH
    /\ logs[1].context_data.priority_order = ResolvedChannels("C1")

----------------------------------------------------------------------------
(* Customer synchronization *)

ContactFields == {"first_name", "last_name", "email", "phone", "whatsapp"}

----------------------------------------------------------------------------
(* Disabled channels *)

\* C27: no record of a customer, first send or fallback, regular or custom
\* event, is on a channel the customer has a disabled preference row for.
C27_DisabledChannelNeverUsed ==
    \A i \in DOMAIN logs :
        logs[i].channel \notin DisabledChannels(logs[i].recipient_id)

----------------------------------------------------------------------------
(* Records and their send tasks *)

\* C28: when process_event returns, notifications_queued is the number of
\* records the call created and every record it left in status Queued has a
\* send message on the queue, also when the broker failed after the insert.
C28_QueuedRecordsHaveTasks ==
    [][\A p \in inbox :
          Processes(p) =>
              /\ result'.notifications_queued = Cardinality(NewRecords)
              /\ \A n \in NewRecords :
                     logs'[n].status = QUEUED =>
                         \E m \in BagToSet(tasks') : m.log_id = logs'[n].id]_vars

----------------------------------------------------------------------------
(* What a fallback record carries *)

\* the record child carries the content of the record failed
CarriesContentOf(child, failed) ==
    /\ child.event_type = failed.event_type
    /\ child.subject = failed.subject
    /\ child.context_data.full_body = failed.context_data.full_body
    /\ child.template_id = failed.template_id
    /\ child.template_name = failed.template_name
    /\ child.context_data.context = failed.context_data.context
    /\ child.correlation_id = failed.correlation_id
    /\ child.context_data.priority_order = failed.context_data.priority_order

\* C29: when a record becomes Failed by exhausting its retries, storage and
\* broker work, and a later channel of its priority list has an address
\* (channels without one being skipped), the fallback record created carries
\* the failed record's event type, subject, full body, template, context,
\* correlation id and priority list.
C29_FallbackCarriesContent ==
    [][\A i \in DOMAIN logs :
          (SendFailed(i) /\ BecomesFailed(i) /\ faults' = faults
             /\ logs[i].channel \in Range(logs[i].context_data.priority_order)
             /\ LaterWithAddress(i) # {}) =>
              \E n \in NewRecords : CarriesContentOf(logs'[n], logs'[i])]_vars


----------------------------------------------------------------------------
(* Validation and rendering *)

\* the placeholders that the values of a context hold themselves
CarriedByValues(ctx) == UNION {GetVariables(ctx[i].v) : i \in DOMAIN ctx}

\* the placeholders of a template text that a text rendered from it with ctx
\* still holds, those that came in with a value aside
LeftUnsubstituted(text, template_text, ctx) ==
    (GetVariables(text) \cap GetVariables(template_text)) \ CarriedByValues(ctx)

\* the subject of a template as the queue loop reads it
SubjectText(template) == IF Truthy(template.subject) THEN template.subject ELSE ""

\* C30: in a call for a non-custom event (the calls that validate the
\* template variables), every record created was created after the
\* validation passed; every placeholder of its template's subject and body
\* names a key of the enriched context after normalization, and neither the
\* stored subject nor the stored full body holds a placeholder of the template
\* any more.
C30_ValidatedMeansSubstituted ==
    [][\A p \in inbox :
          (Processes(p) /\ p.event_type # CUSTOM) =>
              \A n \in NewRecords :
                  LET template == Templates[logs'[n].template_id]
                      ctx == EnrichContextMinimal(p, customers'[p.customer_id])
                  IN  /\ FirstCode(result') # "missing_variables"
                      /\ \A v \in GetVariables(template.body)
                                  \cup GetVariables(SubjectText(template)) :
                             ~Absent(v, ctx)
                      /\ LeftUnsubstituted(logs'[n].context_data.full_body,
                                           template.body, ctx) = {}
                      /\ LeftUnsubstituted(logs'[n].subject,
                                           SubjectText(template), ctx) = {}]_vars

\* a whatsapp record rendered from a context whose keys differ from the
\* template's names in case and accent
C30_Witness ==
    \E n \in DOMAIN logs :
           /\ logs[n].template_id = "T-wa"
           /\ logs[n].context_data.full_body = "Ana: PBA123 {listo} {{ x }}"
           /\ HasKey(logs[n].context_data.context, "N6MBRE")

====
